---- MODULE Spec2Model ----
(***************************************************************************)
(* Storage adapters and read-mutate-write middleware of the grammY plugin  *)
(* templates: MemoryStorageAdapter (TTL, lazy eviction), the Map-backed    *)
(* adapters of createInMemoryAdapter and plugin.ts MemoryStorage, and the  *)
(* middleware of createStoragePlugin, plugin() and createTextVaultPlugin.  *)
(***************************************************************************)
EXTENDS Integers, Sequences, FiniteSets, TLC

VARIABLES
    kind,     \* which adapter implementation the store belongs to
    ttl,      \* MemoryStorageOptions.ttlMilliseconds
    store,    \* the adapter's Map, as its entries in insertion order
    now,      \* Date.now()
    iter,     \* the generator obtained from readAllKeys/Values/Entries
    latest,   \* history: per key, the value of the latest write not followed by a delete
    writtenAt,\* history: per key, Date.now() at the latest write
    last,     \* history: the operation performed by the latest step
    cfg,      \* the options the middleware was created with
    req,      \* per request in flight: the middleware invocation's locals
    heap,     \* the objects that stored values and handles refer to
    ev,       \* history: what the latest step of the middleware did
    hist,     \* history: the run of sequential single-increment requests so far
    kb        \* the context handed to a default key builder, and what it returned

vars == <<kind, ttl, store, now, iter, latest, writtenAt, last, cfg, req, heap, ev, hist, kb>>

\* the state of the adapter under direct use, and of the middleware
avars == <<ttl, now, iter, latest, writtenAt, last>>
lvars == <<cfg, req, heap, ev, hist>>

----------------------------------------------------------------------------
(* Bounds of the model *)

MaxTime == 3
MaxId == 3
MaxTtl == 2
MaxVal == 1
MaxOps == 2
MaxCounter == 2

----------------------------------------------------------------------------
(* JavaScript values *)

\* the value `undefined` (an absent result, an absent option)
Undefined == -1
\* the value `null`
Null == -2
\* the number Infinity
Infinity == -3

\* JavaScript truthiness of a number or undefined
Truthy(x) == x # Undefined /\ x # 0

AdapterKeys == {"a", "b"}
Vals == 0..MaxVal
NoKey == "<undefined>"

----------------------------------------------------------------------------
(* The built-in Map: a sequence of [key, val] in insertion order *)

MapHas(m, k) == \E i \in 1..Len(m) : m[i].key = k

MapIndex(m, k) == CHOOSE i \in 1..Len(m) : m[i].key = k

MapGet(m, k) == m[MapIndex(m, k)].val

\* a Map whose set moves the key to the end of the iteration order
MapSet_moveToEnd(m, k, v) ==
    Append(SelectSeq(m, LAMBDA e : e.key # k), [key |-> k, val |-> v])

MapSet(m, k, v) ==
    IF MapHas(m, k)
    THEN [m EXCEPT ![MapIndex(m, k)].val = v]
    ELSE Append(m, [key |-> k, val |-> v])

MapDelete(m, k) == SelectSeq(m, LAMBDA e : e.key # k)

MapKeys(m) == {m[i].key : i \in 1..Len(m)}

----------------------------------------------------------------------------
(* MemoryStorageAdapter *)

\* computeExpiry falling back to a lifetime of one millisecond when no finite
\* ttl is configured
computeExpiry_defaultTtl(t, n) ==
    IF ~Truthy(t) \/ t = Infinity THEN n + 1 ELSE n + t

computeExpiry(t, n) ==
    IF ~Truthy(t) THEN Undefined
    ELSE IF t = Infinity THEN Undefined
    ELSE n + t

\* read(key) testing the stored value, not the entry, for presence
MemoryStorageAdapter_read_falsyValue(m, key, n) ==
    IF ~MapHas(m, key) \/ ~Truthy(MapGet(m, key).value) THEN [store |-> m, ret |-> Undefined]
    ELSE LET entry == MapGet(m, key)
         IN  IF Truthy(entry.expiresAt) /\ entry.expiresAt <= n
             THEN [store |-> MapDelete(m, key), ret |-> Undefined]
             ELSE [store |-> m, ret |-> entry.value]

\* read(key) that sweeps every expired entry out of the Map
MemoryStorageAdapter_read_sweep(m, key, n) ==
    LET swept == SelectSeq(m, LAMBDA e : ~(Truthy(e.val.expiresAt) /\ e.val.expiresAt <= n))
    IN  IF ~MapHas(swept, key) THEN [store |-> swept, ret |-> Undefined]
        ELSE [store |-> swept, ret |-> MapGet(swept, key).value]

\* read(key): the value returned and the Map afterwards
MemoryStorageAdapter_read(m, key, n) ==
    IF ~MapHas(m, key) THEN [store |-> m, ret |-> Undefined]
    ELSE LET entry == MapGet(m, key)
         IN  IF Truthy(entry.expiresAt) /\ entry.expiresAt <= n
             THEN [store |-> MapDelete(m, key), ret |-> Undefined]
             ELSE [store |-> m, ret |-> entry.value]

\* write(key, value) that keeps the expiry time of the entry it replaces
MemoryStorageAdapter_write_keepExpiry(m, key, value, t, n) ==
    MapSet(m, key, [value |-> value,
                    expiresAt |-> IF MapHas(m, key) THEN MapGet(m, key).expiresAt
                                  ELSE computeExpiry(t, n)])

MemoryStorageAdapter_write(m, key, value, t, n) ==
    MapSet(m, key, [value |-> value, expiresAt |-> computeExpiry(t, n)])

\* delete(key) clearing the whole Map
MemoryStorageAdapter_delete_clear(m, key) == <<>>

MemoryStorageAdapter_delete(m, key) == MapDelete(m, key)

\* has(key) asking the Map, without the expiry check of read
MemoryStorageAdapter_has_mapHas(m, key, n) == [store |-> m, ret |-> MapHas(m, key)]

MemoryStorageAdapter_has(m, key, n) ==
    LET r == MemoryStorageAdapter_read(m, key, n)
    IN  [store |-> r.store, ret |-> r.ret # Undefined]

\* one next() of a generator that yields the stored value without the expiry check
RECURSIVE iterate_noExpiryCheck(_, _, _)
iterate_noExpiryCheck(m, pos, n) ==
    IF pos >= Len(m)
    THEN [store |-> m, pos |-> pos, done |-> TRUE, key |-> NoKey, value |-> Undefined]
    ELSE [store |-> m, pos |-> pos + 1, done |-> FALSE,
          key |-> m[pos + 1].key, value |-> m[pos + 1].val.value]

\* one next() of the generators iterateKeys / iterateValues / iterateEntries:
\* the loop over store.keys() runs from the iterator's position to its next yield
RECURSIVE iterate(_, _, _)
iterate(m, pos, n) ==
    IF pos >= Len(m)
    THEN [store |-> m, pos |-> pos, done |-> TRUE, key |-> NoKey, value |-> Undefined]
    ELSE LET key == m[pos + 1].key
             r == MemoryStorageAdapter_read(m, key, n)
         IN  IF r.ret # Undefined
             THEN [store |-> r.store, pos |-> pos + 1, done |-> FALSE,
                   key |-> key, value |-> r.ret]
             ELSE iterate(r.store, IF Len(r.store) < Len(m) THEN pos ELSE pos + 1, n)

\* Array.from(generator) of a fresh generator: every [key, value] it yields,
\* in order (readAllKeys yields the keys, readAllValues the values)
RECURSIVE drain(_, _, _, _)
drain(m, pos, n, acc) ==
    LET r == iterate(m, pos, n)
    IN  IF r.done THEN acc
        ELSE drain(r.store, r.pos, n, Append(acc, <<r.key, r.value>>))

readAllEntries(m, n) == drain(m, 0, n, <<>>)

\* the keys and the values of the entries a generator yields
yieldedKeys(entries) == [i \in 1..Len(entries) |-> entries[i][1]]

yieldedValues(entries) == [i \in 1..Len(entries) |-> entries[i][2]]

readAllKeys(m, n) == yieldedKeys(drain(m, 0, n, <<>>))

readAllValues(m, n) == yieldedValues(drain(m, 0, n, <<>>))

\* the position of a live Map iterator after the Map went from m to m2 by a
\* delete of key k: entries behind the iterator that vanish move it back
IterAfterDelete(it, m, m2, k) ==
    IF it.mode # "none" /\ Len(m2) < Len(m) /\ MapIndex(m, k) <= it.pos
    THEN [it EXCEPT !.pos = @ - 1]
    ELSE it

----------------------------------------------------------------------------
(* createInMemoryAdapter (mod.ts) and MemoryStorage (plugin.ts) *)

createInMemoryAdapter_read(m, key) == IF MapHas(m, key) THEN MapGet(m, key) ELSE Undefined

createInMemoryAdapter_write(m, key, value) == MapSet(m, key, value)

createInMemoryAdapter_delete(m, key) == MapDelete(m, key)

createInMemoryAdapter_has(m, key) == MapHas(m, key)

MemoryStorage_read(m, key) == IF MapHas(m, key) THEN MapGet(m, key) ELSE Undefined

MemoryStorage_write(m, key, value) == MapSet(m, key, value)

MemoryStorage_delete(m, key) == MapDelete(m, key)

MemoryStorage_has(m, key) == MapHas(m, key)

----------------------------------------------------------------------------
(* The adapter under direct use: any sequence of calls, with the clock advancing *)

AdapterKinds == {"MemoryStorageAdapter", "createInMemoryAdapter", "MemoryStorage"}

TtlOptions == {Undefined, Infinity} \cup (0..MaxTtl)

\* read(key) of the adapter in use: the value returned and the Map afterwards
AdapterRead(m, key, n) ==
    CASE kind = "MemoryStorageAdapter" -> MemoryStorageAdapter_read(m, key, n)
      [] kind = "createInMemoryAdapter" ->
            [store |-> m, ret |-> createInMemoryAdapter_read(m, key)]
      [] kind = "MemoryStorage" -> [store |-> m, ret |-> MemoryStorage_read(m, key)]

AdapterWrite(m, key, value, n) ==
    CASE kind = "MemoryStorageAdapter" -> MemoryStorageAdapter_write(m, key, value, ttl, n)
      [] kind = "createInMemoryAdapter" -> createInMemoryAdapter_write(m, key, value)
      [] kind = "MemoryStorage" -> MemoryStorage_write(m, key, value)

AdapterDelete(m, key) ==
    CASE kind = "MemoryStorageAdapter" -> MemoryStorageAdapter_delete(m, key)
      [] kind = "createInMemoryAdapter" -> createInMemoryAdapter_delete(m, key)
      [] kind = "MemoryStorage" -> MemoryStorage_delete(m, key)

AdapterHas(m, key, n) ==
    CASE kind = "MemoryStorageAdapter" -> MemoryStorageAdapter_has(m, key, n)
      [] kind = "createInMemoryAdapter" ->
            [store |-> m, ret |-> createInMemoryAdapter_has(m, key)]
      [] kind = "MemoryStorage" -> [store |-> m, ret |-> MemoryStorage_has(m, key)]

----------------------------------------------------------------------------
(* The default key builders *)

\* chat and sender identifiers
Ids == 0..MaxId

\* a context: the identifier of its chat (ctx.chat?.id, which ctx.chatId
\* returns as well) and of its sender (ctx.from?.id), Undefined where absent
Ctxs == [chat : Ids \cup {Undefined}, from : Ids \cup {Undefined}]

Digits == <<"0", "1", "2", "3", "4", "5", "6", "7", "8", "9">>

\* String(id) / id.toString() of a non-negative integer
RECURSIVE toString(_)
toString(id) ==
    IF id < 10 THEN Digits[id + 1]
    ELSE toString(id \div 10) \o Digits[(id % 10) + 1]

\* a ?? b
Coalesce(a, b) == IF a = Undefined \/ a = Null THEN b ELSE a

\* defaultKey that ignores the sender
defaultKey_chatOnly(ctx) ==
    IF ctx.chat = Undefined THEN NoKey ELSE toString(ctx.chat)

\* mod.ts lines 44-47
defaultKey(ctx) ==
    LET id == Coalesce(ctx.chat, ctx.from)
    IN  IF id = Undefined THEN NoKey ELSE toString(id)

\* createTextVaultPlugin's defaultKey (lines 73-76)
TextVault_defaultKey(ctx) ==
    LET id == Coalesce(ctx.chat, ctx.from)
    IN  IF id = Undefined THEN NoKey ELSE toString(id)

\* plugin.ts lines 61-63: ctx.chatId?.toString()
defaultGetStorageKey(ctx) ==
    IF ctx.chat = Undefined \/ ctx.chat = Null THEN NoKey ELSE toString(ctx.chat)

\* plugin/mod.ts line 64: ctx.chatId?.toString()
defaultKeyBuilder(ctx) ==
    IF ctx.chat = Undefined \/ ctx.chat = Null THEN NoKey ELSE toString(ctx.chat)

\* no key builder was called
NoCall == [ctx |-> [chat |-> Undefined, from |-> Undefined], builder |-> "none", key |-> NoKey]

----------------------------------------------------------------------------
(* Requests, options and objects of the middleware *)

\* the contexts that may be in flight at once
Reqs == {1, 2}

\* what a key builder may return: a string (possibly empty) or undefined
RawKeys == {"", "7"}
KeyResults == RawKeys \cup {NoKey}

Prefixes == {"", "p:"}

\* the contents initial() may produce; Undefined: no initial option given
Initials == {Undefined, 0}

NoCfg == [variant |-> "none", initial |-> Undefined, persistInitial |-> TRUE, prefix |-> ""]

\* the locals of one middleware invocation before it starts (raw: what the key
\* builder returned; found: the read returned a value); lastOp
\* (downstream's latest handle call), start (what the adapter held under the
\* key when downstream started, kept only in a snapshot run), threw
\* (downstream of createStoragePlugin ended by throwing),
\* reads, writes, deletes (adapter calls) and nexts (calls of next()) are history
IdleReq == [pc |-> "idle", raw |-> NoKey, key |-> NoKey,
            loaded |-> Undefined, found |-> FALSE,
            exists |-> FALSE, dirty |-> FALSE, cleared |-> FALSE,
            lastOp |-> "none", start |-> Undefined, threw |-> FALSE,
            reads |-> 0, writes |-> 0, deletes |-> 0, nexts |-> 0]

\* no event of the middleware (the adapter is used directly)
NoEvent == [type |-> "none", status |-> "none", q |-> IdleReq,
            found |-> Undefined, seen |-> Undefined, final |-> Undefined]

\* no request has run yet
NoHist == [clean |-> TRUE, raced |-> FALSE, n |-> 0, key |-> NoKey,
           value |-> Undefined, incd |-> FALSE]

\* some request so far overlapped another, used another key, failed, or did
\* something other than incrementing the counter once
Broken == [clean |-> FALSE, raced |-> FALSE, n |-> 0, key |-> NoKey,
           value |-> Undefined, incd |-> FALSE]

\* the reference a Map value holds (MemoryStorageAdapter wraps it in an entry)
StoredRef(v) == IF kind = "MemoryStorageAdapter" THEN v.value ELSE v

\* a fresh object reference
Alloc(h) == CHOOSE o \in 1..(Cardinality(DOMAIN h) + 1) : o \notin DOMAIN h

\* what a reference (or undefined / null) stands for
Deref(h, ref) == IF ref \in DOMAIN h THEN h[ref] ELSE ref

\* the object references an invocation holds while it is in flight
HeldRefs(q) == IF q.pc \in {"init", "next"} THEN <<q.loaded>> ELSE <<>>

RECURSIVE Flatten(_)
Flatten(ss) == IF ss = <<>> THEN <<>> ELSE Head(ss) \o Flatten(Tail(ss))

RECURSIVE Distinct(_, _)
Distinct(refs, acc) ==
    IF refs = <<>> THEN acc
    ELSE Distinct(Tail(refs),
                  IF \E i \in 1..Len(acc) : acc[i] = Head(refs)
                  THEN acc ELSE Append(acc, Head(refs)))

\* the objects reachable from the Map or from a request in flight, in the
\* order Map entries, then requests
Live(h, m, rq) ==
    LET refs == [i \in 1..Len(m) |-> StoredRef(m[i].val)]
                \o Flatten([r \in 1..Cardinality(Reqs) |-> HeldRefs(rq[r])])
    IN  Distinct(SelectSeq(refs, LAMBDA x : x \in DOMAIN h), <<>>)

\* the Map and the requests with each reference x replaced by names[x]
Rename(h, m, rq, names) ==
    [heap |-> h,
     store |-> [i \in 1..Len(m) |->
                   [m[i] EXCEPT !.val = IF kind = "MemoryStorageAdapter"
                                        THEN [@ EXCEPT !.value = names[@]]
                                        ELSE names[@]]],
     req |-> [r \in Reqs |->
                [rq[r] EXCEPT !.loaded = IF @ \in DOMAIN names THEN names[@] ELSE @]]]

\* garbage collection: the live objects are named 1, 2, ... in the order of
\* Live (object identity carries no information beyond which references are equal)
Collect(h, m, rq) ==
    LET live == Live(h, m, rq)
        inverse == [x \in {live[i] : i \in 1..Len(live)} |->
                       CHOOSE i \in 1..Len(live) : live[i] = x]
    IN  Rename([i \in 1..Len(live) |-> h[live[i]]], m, rq, inverse)

NoOp == [op |-> "none", key |-> NoKey, val |-> Undefined, ret |-> Undefined,
         flag |-> FALSE, mode |-> "none"]

NoIter == [mode |-> "none", pos |-> 0]

Init ==
    /\ kind \in AdapterKinds
    /\ ttl \in (IF kind = "MemoryStorageAdapter" THEN TtlOptions ELSE {Undefined})
    /\ store = <<>>
    /\ now = 0
    /\ iter = NoIter
    /\ latest = [k \in AdapterKeys |-> Undefined]
    /\ writtenAt = [k \in AdapterKeys |-> Undefined]
    /\ last = NoOp
    /\ cfg = NoCfg
    /\ req = [r \in Reqs |-> IdleReq]
    /\ heap = <<>>
    /\ ev = NoEvent
    /\ hist = NoHist
    /\ kb = NoCall

\* the expiry time of the entry of k if the Map holds one that has an expiry
\* time and has not reached it, Undefined otherwise
LiveExpiry(m, k, n) ==
    IF /\ kind = "MemoryStorageAdapter"
       /\ MapHas(m, k)
       /\ Truthy(MapGet(m, k).expiresAt)
       /\ MapGet(m, k).expiresAt > n
    THEN MapGet(m, k).expiresAt
    ELSE Undefined

\* write(k, v); the history notes whether it replaced an entry that had not
\* expired (flag) and that entry's expiry time (ret)
Write(k, v) ==
    /\ store' = AdapterWrite(store, k, v, now)
    /\ latest' = [latest EXCEPT ![k] = v]
    /\ writtenAt' = [writtenAt EXCEPT ![k] = now]
    /\ last' = [NoOp EXCEPT !.op = "write", !.key = k, !.val = v,
                            !.flag = (LiveExpiry(store, k, now) # Undefined),
                            !.ret = LiveExpiry(store, k, now)]
    /\ UNCHANGED <<kind, ttl, now, iter, cfg, req, heap, ev, hist, kb>>

Read(k) ==
    LET r == AdapterRead(store, k, now)
    IN  /\ store' = r.store
        /\ iter' = IterAfterDelete(iter, store, r.store, k)
        /\ last' = [NoOp EXCEPT !.op = "read", !.key = k, !.ret = r.ret]
        /\ UNCHANGED <<kind, ttl, now, latest, writtenAt, cfg, req, heap, ev, hist, kb>>

Delete(k) ==
    LET m == AdapterDelete(store, k)
    IN  /\ store' = m
        /\ iter' = IterAfterDelete(iter, store, m, k)
        /\ latest' = [latest EXCEPT ![k] = Undefined]
        /\ writtenAt' = [writtenAt EXCEPT ![k] = Undefined]
        /\ last' = [NoOp EXCEPT !.op = "delete", !.key = k, !.flag = MapHas(store, k)]
        /\ UNCHANGED <<kind, ttl, now, cfg, req, heap, ev, hist, kb>>

Has(k) ==
    LET r == AdapterHas(store, k, now)
    IN  /\ store' = r.store
        /\ iter' = IterAfterDelete(iter, store, r.store, k)
        /\ last' = [NoOp EXCEPT !.op = "has", !.key = k, !.flag = r.ret]
        /\ UNCHANGED <<kind, ttl, now, latest, writtenAt, cfg, req, heap, ev, hist, kb>>

\* readAllKeys() / readAllValues() / readAllEntries(): a fresh generator
ReadAll(mode) ==
    /\ kind = "MemoryStorageAdapter"
    /\ iter' = [mode |-> mode, pos |-> 0]
    /\ last' = [NoOp EXCEPT !.op = "readAll", !.mode = mode]
    /\ UNCHANGED <<kind, ttl, store, now, latest, writtenAt, cfg, req, heap, ev, hist, kb>>

\* next() on a generator that tests expiry as of the time it was obtained
IterNext_atCallTime ==
    /\ iter.mode # "none"
    /\ LET r == iterate(store, iter.pos, iter.at)
       IN  /\ store' = r.store
           /\ iter' = IF r.done THEN NoIter ELSE [iter EXCEPT !.pos = r.pos]
           /\ last' = [NoOp EXCEPT !.op = "next", !.mode = iter.mode, !.flag = r.done,
                                   !.key = r.key, !.val = Len(store) - Len(r.store),
                                   !.ret = IF iter.mode = "keys" THEN Undefined ELSE r.value]
    /\ UNCHANGED <<kind, ttl, now, latest, writtenAt, cfg, req, heap, ev, hist, kb>>

\* next() on the generator
IterNext ==
    /\ iter.mode # "none"
    /\ LET r == iterate(store, iter.pos, now)
       IN  /\ store' = r.store
           /\ iter' = IF r.done THEN NoIter ELSE [iter EXCEPT !.pos = r.pos]
           /\ last' = [NoOp EXCEPT !.op = "next", !.mode = iter.mode, !.flag = r.done,
                                   !.key = r.key, !.val = Len(store) - Len(r.store),
                                   !.ret = IF iter.mode = "keys" THEN Undefined ELSE r.value]
    /\ UNCHANGED <<kind, ttl, now, latest, writtenAt, cfg, req, heap, ev, hist, kb>>

\* the clock advances by one millisecond
Tick ==
    /\ now < MaxTime
    /\ now' = now + 1
    /\ last' = [NoOp EXCEPT !.op = "tick"]
    /\ UNCHANGED <<kind, ttl, store, iter, latest, writtenAt, cfg, req, heap, ev, hist, kb>>

Next ==
    \/ \E k \in AdapterKeys, v \in Vals : Write(k, v)
    \/ \E k \in AdapterKeys : Read(k)
    \/ \E k \in AdapterKeys : Delete(k)
    \/ \E k \in AdapterKeys : Has(k)
    \/ \E mode \in {"keys", "values", "entries"} : ReadAll(mode)
    \/ IterNext
    \/ Tick

Spec == Init /\ [][Next]_vars

----------------------------------------------------------------------------
(* MemoryStorageAdapter without a TTL under any sequence of write and delete
   calls, with the clock advancing *)

ContentInit ==
    /\ Init
    /\ kind = "MemoryStorageAdapter"
    /\ ttl \in {Undefined, Infinity}

ContentNext ==
    \/ \E k \in AdapterKeys, v \in Vals : Write(k, v)
    \/ \E k \in AdapterKeys : Delete(k)
    \/ Tick

ContentSpec == ContentInit /\ [][ContentNext]_vars

----------------------------------------------------------------------------
(* The generators of MemoryStorageAdapter with entries that expire, the history
   noting when each generator was obtained *)

EnumInit ==
    /\ Init
    /\ kind = "MemoryStorageAdapter"
    /\ ttl \in 0..MaxTtl

\* readAllKeys() / readAllValues() / readAllEntries(): a fresh generator;
\* at: Date.now() at this call (history)
ReadAllAt(mode) ==
    /\ iter' = [mode |-> mode, pos |-> 0, at |-> now]
    /\ last' = [NoOp EXCEPT !.op = "readAll", !.mode = mode]
    /\ UNCHANGED <<kind, ttl, store, now, latest, writtenAt, cfg, req, heap, ev, hist, kb>>

EnumNext ==
    \/ \E k \in AdapterKeys, v \in Vals : Write(k, v)
    \/ \E k \in AdapterKeys : Read(k)
    \/ \E k \in AdapterKeys : Delete(k)
    \/ \E mode \in {"keys", "values", "entries"} : ReadAllAt(mode)
    \/ IterNext
    \/ Tick

EnumSpec == EnumInit /\ [][EnumNext]_vars

----------------------------------------------------------------------------
(* createStoragePlugin (mod.ts) *)

\* the StorageItem handle, over the locals loaded / exists / cleared / dirty
item_exists(q) == q.exists /\ ~q.cleared

item_get(q) == IF q.exists /\ ~q.cleared THEN q.loaded ELSE Undefined

item_getOr(q, fallback) == IF item_get(q) = Undefined THEN fallback ELSE item_get(q)

\* set(value) that leaves the cleared mark in place
item_set_keepCleared(q, value) ==
    [q EXCEPT !.loaded = value, !.exists = TRUE, !.dirty = TRUE]

item_set(q, value) ==
    [q EXCEPT !.loaded = value, !.exists = TRUE, !.cleared = FALSE, !.dirty = TRUE]

\* clear() that forgets to mark the handle dirty
item_clear_notDirty(q) ==
    [q EXCEPT !.loaded = Undefined, !.exists = FALSE, !.cleared = TRUE]

item_clear(q) ==
    [q EXCEPT !.loaded = Undefined, !.exists = FALSE, !.cleared = TRUE, !.dirty = TRUE]

\* the start of createStoragePlugin without the synthesis of the initial value
createStoragePlugin_start_noInitial(q, storageKey, m, h) ==
    IF storageKey = NoKey
    THEN [store |-> m, heap |-> h, found |-> Undefined,
          q |-> [q EXCEPT !.pc = "next", !.nexts = @ + 1]]
    ELSE LET rd == AdapterRead(m, storageKey, now)
             q0 == [q EXCEPT !.raw = storageKey, !.key = storageKey, !.reads = @ + 1,
                             !.loaded = rd.ret, !.found = (rd.ret # Undefined),
                             !.exists = (rd.ret # Undefined)]
         IN  [store |-> rd.store, heap |-> h, found |-> Deref(h, rd.ret),
              q |-> [q0 EXCEPT !.pc = "next", !.nexts = @ + 1]]

\* a start whose handle reports a value whatever the read returned
createStoragePlugin_start_existsAlways(q, storageKey, m, h) ==
    IF storageKey = NoKey
    THEN [store |-> m, heap |-> h, found |-> Undefined,
          q |-> [q EXCEPT !.pc = "next", !.nexts = @ + 1]]
    ELSE LET rd == AdapterRead(m, storageKey, now)
             q0 == [q EXCEPT !.raw = storageKey, !.key = storageKey, !.reads = @ + 1,
                             !.loaded = rd.ret, !.found = (rd.ret # Undefined),
                             !.exists = TRUE]
         IN  [store |-> rd.store, heap |-> h, found |-> Deref(h, rd.ret),
              q |-> [q0 EXCEPT !.pc = "next", !.nexts = @ + 1]]

\* lines 63-116: resolve the key, read, initialize, install the handle, call next()
createStoragePlugin_start(q, storageKey, m, h) ==
    IF storageKey = NoKey
    THEN [store |-> m, heap |-> h, found |-> Undefined,
          q |-> [q EXCEPT !.pc = "next", !.nexts = @ + 1]]
    ELSE LET rd == AdapterRead(m, storageKey, now)
             initialRead == rd.ret
             q0 == [q EXCEPT !.raw = storageKey, !.key = storageKey, !.reads = @ + 1,
                             !.loaded = initialRead,
                             !.found = (initialRead # Undefined),
                             !.exists = (initialRead # Undefined)]
             o == Alloc(h)
             useInitial == ~q0.exists /\ cfg.initial # Undefined
             q1 == IF useInitial
                   THEN [q0 EXCEPT !.loaded = o, !.exists = TRUE,
                                   !.dirty = cfg.persistInitial]
                   ELSE q0
         IN  [store |-> rd.store,
              heap |-> IF useInitial THEN h @@ (o :> cfg.initial) ELSE h,
              found |-> Deref(h, initialRead),
              q |-> [q1 EXCEPT !.pc = "next", !.nexts = @ + 1]]

\* a load whose adapter.read is called again after it rejected, and rejects again
createStoragePlugin_readFails_retry(q, storageKey) ==
    [q EXCEPT !.raw = storageKey, !.key = storageKey, !.reads = @ + 2]

\* line 69 when adapter.read rejects: the error leaves the middleware
createStoragePlugin_readFails(q, storageKey) ==
    [q EXCEPT !.raw = storageKey, !.key = storageKey, !.reads = @ + 1]

\* lines 117-125 when the adapter call of the finally block rejects
createStoragePlugin_finallyFails(q) ==
    IF ~item_exists(q)
    THEN [status |-> "delete failed", q |-> [q EXCEPT !.deletes = @ + 1]]
    ELSE [status |-> "write failed", q |-> [q EXCEPT !.writes = @ + 1]]

\* a finally block that persists only if the adapter still holds what the
\* request loaded (nothing, when the read found nothing)
createStoragePlugin_finally_ifUnchanged(q, m) ==
    IF q.key # NoKey /\ q.dirty /\ (AdapterHas(m, q.key, now).ret <=> q.found)
    THEN IF ~item_exists(q)
         THEN [store |-> AdapterDelete(m, q.key), q |-> [q EXCEPT !.deletes = @ + 1]]
         ELSE [store |-> AdapterWrite(m, q.key, q.loaded, now),
               q |-> [q EXCEPT !.writes = @ + 1]]
    ELSE [store |-> m, q |-> q]

\* a finally block that persists nothing
createStoragePlugin_finally_skip(q, m) == [store |-> m, q |-> q]

\* a finally block that persists whether or not the handle is dirty
createStoragePlugin_finally_always(q, m) ==
    IF ~item_exists(q)
    THEN [store |-> AdapterDelete(m, q.key), q |-> [q EXCEPT !.deletes = @ + 1]]
    ELSE [store |-> AdapterWrite(m, q.key, q.loaded, now), q |-> [q EXCEPT !.writes = @ + 1]]

\* lines 117-125: the finally block
createStoragePlugin_finally(q, m) ==
    IF q.key # NoKey /\ q.dirty
    THEN IF ~item_exists(q)
         THEN [store |-> AdapterDelete(m, q.key), q |-> [q EXCEPT !.deletes = @ + 1]]
         ELSE [store |-> AdapterWrite(m, q.key, q.loaded, now),
               q |-> [q EXCEPT !.writes = @ + 1]]
    ELSE [store |-> m, q |-> q]

----------------------------------------------------------------------------
(* Steps of a middleware invocation *)

Variant(v) == cfg.variant = v

\* the history after the request r resolved its key. The run stays clean while
\* r runs alone; it is a race (raced) when r is the first request to overlap
\* another: a createStoragePlugin request that loaded the same key, has not
\* persisted yet, and is the only request so far
HistStart(r, key) ==
    IF /\ hist.clean
       /\ key # NoKey
       /\ \A x \in Reqs \ {r} : req[x].pc = "idle"
       /\ hist.n = 0 \/ hist.key = key
    THEN [hist EXCEPT !.key = key, !.incd = FALSE]
    ELSE IF /\ Variant("createStoragePlugin")
            /\ hist.clean
            /\ hist.n = 0
            /\ key # NoKey
            /\ hist.key = key
            /\ \A x \in Reqs \ {r} : req[x].pc = "next" /\ req[x].key = key
         THEN [hist EXCEPT !.clean = FALSE, !.raced = TRUE]
         ELSE Broken

\* the history after downstream incremented the counter in place
HistIncrement == IF hist.clean /\ ~hist.incd THEN [hist EXCEPT !.incd = TRUE] ELSE Broken

\* the history after a request ended; single: downstream incremented the
\* counter once and did nothing else; persisted: the counter it left stored
HistFinish(status, single, persisted) ==
    IF (hist.clean \/ hist.raced) /\ status = "done" /\ single
    THEN [hist EXCEPT !.n = @ + 1, !.value = persisted]
    ELSE Broken

Event(type, status, q, found, seen, final) ==
    [type |-> type, status |-> status, q |-> [q EXCEPT !.loaded = Undefined],
     found |-> found, seen |-> seen, final |-> final]

\* a step inside the invocation r: the Map, the locals of r and the heap afterwards
Step(r, m, q, h, hs) ==
    /\ \E c \in {Collect(h, m, [req EXCEPT ![r] = q])} :
           store' = c.store /\ req' = c.req /\ heap' = c.heap
    /\ ev' = NoEvent
    /\ hist' = hs
    /\ UNCHANGED <<kind, cfg, kb, avars>>

\* what the adapter holds under key, as a direct read would return it
Stored(m, h, key) == Deref(h, AdapterRead(m, key, now).ret)

\* a snapshot run keeps what the adapter held when downstream started
Snapshots == last.op = "snapshot"

Snapshot(m, h, key) ==
    IF Snapshots /\ key # NoKey THEN Stored(m, h, key) ELSE Undefined

\* the step that hands control to downstream; found is what the adapter held,
\* seen what the handle shows downstream at that moment
Delegate(r, m, q, h, found, seen, hs) ==
    /\ \E c \in {Collect(h, m, [req EXCEPT ![r] = [q EXCEPT !.start = Snapshot(m, h, q.key)]])} :
           store' = c.store /\ req' = c.req /\ heap' = c.heap
    /\ ev' = Event("delegate", "none", q, found, seen, Undefined)
    /\ hist' = hs
    /\ UNCHANGED <<kind, cfg, kb, avars>>

\* the step that ends the invocation r with status "done", "failed" (downstream
\* or the middleware threw), "skipped", or "read failed", "write failed",
\* "delete failed" (that adapter call rejected); final is
\* what the handle held when downstream finished
Finish(r, m, q, h, status, final, hs) ==
    /\ \E c \in {Collect(h, m, [req EXCEPT ![r] = IdleReq])} :
           store' = c.store /\ req' = c.req /\ heap' = c.heap
    /\ ev' = Event("finish", status, q, Undefined, Undefined, final)
    /\ hist' = hs
    /\ UNCHANGED <<kind, cfg, kb, avars>>

\* the host hands an update to the middleware in a free context
Idle(r) ==
    /\ req[r].pc = "idle"
    /\ \A x \in Reqs : x < r => req[x].pc # "idle"

SP_Start(r, raw) ==
    /\ Variant("createStoragePlugin")
    /\ Idle(r)
    /\ \E s \in {createStoragePlugin_start(req[r], raw, store, heap)} :
          Delegate(r, s.store, s.q, s.heap, s.found,
                   IF raw = NoKey THEN Undefined ELSE Deref(s.heap, item_get(s.q)),
                   HistStart(r, raw))

\* the calls downstream makes on ctx.storageItem before it ends:
\* set(fresh object), update(prev => ({ value: (prev?.value ?? 0) + 1 })), clear()
HandleCalls ==
    {[op |-> "set", v |-> v] : v \in Vals}
    \cup {[op |-> "update", v |-> Undefined], [op |-> "clear", v |-> Undefined]}

\* the handle after one more call by downstream. x.q: the locals; x.fresh: the
\* content of the object the handle holds if downstream created it (an object
\* created by an earlier call is unreachable once the handle holds another
\* one); x.calls: "none", "update" (one update so far) or "other"
HandleCall(x, call, h) ==
    LET o == Alloc(h)
        prev == IF item_get(x.q) = o THEN x.fresh ELSE Deref(h, item_get(x.q))
        next == (IF prev = Undefined THEN 0 ELSE prev) + 1
        calls == IF x.calls = "none" /\ call.op = "update" THEN "update" ELSE "other"
    IN  CASE call.op = "set" ->
               [q |-> [item_set(x.q, o) EXCEPT !.lastOp = "set"],
                fresh |-> call.v, calls |-> calls]
          [] call.op = "update" ->
               [q |-> [item_set(x.q, o) EXCEPT !.lastOp = "update"],
                fresh |-> next, calls |-> calls]
          [] call.op = "clear" ->
               [q |-> [item_clear(x.q) EXCEPT !.lastOp = "clear"],
                fresh |-> Undefined, calls |-> calls]

\* the handles downstream can reach from those in xs with at most n more calls
\* (the counter staying within the model's range)
RECURSIVE downstream(_, _, _)
downstream(xs, h, n) ==
    IF n = 0 THEN xs
    ELSE downstream(xs \cup {y \in {HandleCall(x, call, h) : x \in xs, call \in HandleCalls} :
                                y.fresh = Undefined \/ y.fresh <= MaxCounter},
                    h, n - 1)

\* what downstream can leave behind when it ends; without a key there is no handle
Outcomes(q, h) ==
    downstream({[q |-> q, fresh |-> Undefined, calls |-> "none"]}, h,
               IF q.key = NoKey THEN 0 ELSE MaxOps)

\* downstream uses the handle and ends, by returning or by throwing, and the
\* finally block runs. The handle calls change only the locals of this
\* invocation, so they are taken in one step with the end of downstream.
SP_End(r, status) ==
    /\ req[r].pc = "next"
    /\ \E out \in Outcomes(req[r], heap) :
          LET h == IF out.fresh = Undefined THEN heap
                   ELSE heap @@ (Alloc(heap) :> out.fresh)
          IN  \E f \in {createStoragePlugin_finally(out.q, store)} :
                 Finish(r, f.store, [f.q EXCEPT !.threw = (status = "failed")], h,
                        status, Deref(h, item_get(out.q)),
                        HistFinish(status, out.calls = "update",
                                   Stored(f.store, h, out.q.key)))

SP_Return(r) ==
    /\ Variant("createStoragePlugin")
    /\ SP_End(r, "done")

\* downstream throws and the error propagates past the post-delegation step
SP_Throw_noFinally(r) ==
    /\ Variant("createStoragePlugin")
    /\ req[r].pc = "next"
    /\ \E out \in Outcomes(req[r], heap) :
          LET h == IF out.fresh = Undefined THEN heap
                   ELSE heap @@ (Alloc(heap) :> out.fresh)
          IN  Finish(r, store, out.q, h, "failed", Deref(h, item_get(out.q)), Broken)

SP_Throw(r) ==
    /\ Variant("createStoragePlugin")
    /\ SP_End(r, "failed")

\* adapter.read rejects (line 69): the middleware rejects with that error
\* before the handle exists. A rejected adapter call leaves the Map as it was.
SP_ReadFails(r, raw) ==
    /\ Variant("createStoragePlugin")
    /\ Idle(r)
    /\ raw # NoKey
    /\ Finish(r, store, createStoragePlugin_readFails(req[r], raw), heap,
              "read failed", Undefined, Broken)

\* downstream throws E, the handle is dirty, and the write or delete of the
\* finally block rejects: a finally block that throws replaces the pending
\* error, so the rejection of the adapter leaves the middleware, not E
SP_ThrowPersistFails(r) ==
    /\ Variant("createStoragePlugin")
    /\ req[r].pc = "next"
    /\ \E out \in Outcomes(req[r], heap) :
          /\ out.q.key # NoKey
          /\ out.q.dirty
          /\ LET h == IF out.fresh = Undefined THEN heap
                      ELSE heap @@ (Alloc(heap) :> out.fresh)
             IN  \E f \in {createStoragePlugin_finallyFails(out.q)} :
                    Finish(r, store, [f.q EXCEPT !.threw = TRUE], h, f.status,
                           Deref(h, item_get(out.q)), Broken)

\* downstream returns, the handle is dirty, and the write or delete of the
\* finally block rejects: that error leaves the middleware
SP_PersistFails(r) ==
    /\ Variant("createStoragePlugin")
    /\ req[r].pc = "next"
    /\ \E out \in Outcomes(req[r], heap) :
          /\ out.q.key # NoKey
          /\ out.q.dirty
          /\ LET h == IF out.fresh = Undefined THEN heap
                      ELSE heap @@ (Alloc(heap) :> out.fresh)
             IN  \E f \in {createStoragePlugin_finallyFails(out.q)} :
                    Finish(r, store, f.q, h, f.status, Deref(h, item_get(out.q)), Broken)

----------------------------------------------------------------------------
(* plugin() (plugin.ts) *)

\* line 155 when storage.read rejects
plugin_readFails(q, rawKey) ==
    [q EXCEPT !.raw = rawKey, !.key = cfg.prefix \o rawKey, !.reads = @ + 1]

\* lines 180-188 when the storage call rejects
plugin_persistFails(q) ==
    IF q.loaded = Null \/ q.loaded = Undefined
    THEN [status |-> "delete failed", q |-> [q EXCEPT !.deletes = @ + 1]]
    ELSE [status |-> "write failed", q |-> [q EXCEPT !.writes = @ + 1]]

\* lines 142-155: resolve the key, prefix it, read
plugin_read(q, rawKey, m) ==
    LET key == cfg.prefix \o rawKey
        rd == AdapterRead(m, key, now)
    IN  [store |-> rd.store,
         q |-> [q EXCEPT !.pc = "init", !.raw = rawKey, !.key = key, !.reads = @ + 1,
                         !.loaded = rd.ret, !.found = (rd.ret # Undefined),
                         !.exists = (rd.ret # Undefined)]]

\* initialization that overwrites whatever was read
plugin_initialize_always(q, m, h) ==
    LET o == Alloc(h)
    IN  [store |-> AdapterWrite(m, q.key, o, now),
         heap |-> h @@ (o :> (IF cfg.initial = Undefined THEN 0 ELSE cfg.initial)),
         q |-> [q EXCEPT !.loaded = o, !.writes = @ + 1]]

\* lines 158-161: write the initial value when nothing is stored
plugin_initialize(q, m, h) ==
    IF q.loaded = Undefined /\ cfg.initial # Undefined
    THEN LET o == Alloc(h)
         IN  [store |-> AdapterWrite(m, q.key, o, now),
              heap |-> h @@ (o :> cfg.initial),
              q |-> [q EXCEPT !.loaded = o, !.writes = @ + 1]]
    ELSE [store |-> m, heap |-> h, q |-> q]

\* a write-back under the key the builder returned, without the prefix
plugin_persist_rawKey(q, m) ==
    IF q.loaded = Null \/ q.loaded = Undefined
    THEN [store |-> AdapterDelete(m, q.raw), q |-> [q EXCEPT !.deletes = @ + 1]]
    ELSE [store |-> AdapterWrite(m, q.raw, q.loaded, now), q |-> [q EXCEPT !.writes = @ + 1]]

\* lines 180-188: write back ctx.pluginData, or delete when it is null / undefined
plugin_persist(q, m) ==
    IF q.loaded = Null \/ q.loaded = Undefined
    THEN [store |-> AdapterDelete(m, q.key), q |-> [q EXCEPT !.deletes = @ + 1]]
    ELSE [store |-> AdapterWrite(m, q.key, q.loaded, now), q |-> [q EXCEPT !.writes = @ + 1]]

\* a plugin() that, like createStoragePlugin, calls next() when there is no key
PL_NoKey_passThrough(r) ==
    /\ Variant("plugin")
    /\ Idle(r)
    /\ Finish(r, store, [req[r] EXCEPT !.nexts = @ + 1], heap, "done", Undefined,
              HistStart(r, NoKey))

\* getStorageKey returned undefined: the middleware throws (lines 144-150)
PL_NoKey(r) ==
    /\ Variant("plugin")
    /\ Idle(r)
    /\ Finish(r, store, req[r], heap, "failed", Undefined, HistStart(r, NoKey))

PL_Start(r, rawKey) ==
    /\ Variant("plugin")
    /\ Idle(r)
    /\ \E s \in {plugin_read(req[r], rawKey, store)} :
          Step(r, s.store, s.q, heap, HistStart(r, s.q.key))

\* the read resolved: initialize, then either throw (lines 164-169) or set
\* ctx.pluginData and call next()
PL_Init(r) ==
    /\ Variant("plugin")
    /\ req[r].pc = "init"
    /\ \E s \in {plugin_initialize(req[r], store, heap)} :
          IF s.q.loaded = Undefined
          THEN Finish(r, s.store, s.q, s.heap, "failed", Undefined, Broken)
          ELSE Delegate(r, s.store, [s.q EXCEPT !.pc = "next", !.nexts = @ + 1], s.heap,
                        Deref(heap, req[r].loaded), Deref(s.heap, s.q.loaded), hist)

\* downstream runs ctx.pluginData.exampleCounter++ on the object it was given
PL_increment(r) ==
    /\ Variant("plugin")
    /\ req[r].pc = "next"
    /\ heap[req[r].loaded] < MaxCounter
    /\ Step(r, store, req[r], [heap EXCEPT ![req[r].loaded] = @ + 1], HistIncrement)

\* what downstream may leave in ctx.pluginData: the object it was given, a
\* fresh object, null or undefined
Assignments ==
    {[op |-> "keep", v |-> Undefined], [op |-> "null", v |-> Undefined],
     [op |-> "undefined", v |-> Undefined]}
    \cup {[op |-> "assign", v |-> v] : v \in Vals}

\* downstream returns, having left asg in ctx.pluginData; lines 180-188 run
PL_Return(r, asg) ==
    /\ Variant("plugin")
    /\ req[r].pc = "next"
    /\ LET o == Alloc(heap)
           h == IF asg.op = "assign" THEN heap @@ (o :> asg.v) ELSE heap
           q == [req[r] EXCEPT
                    !.loaded = CASE asg.op = "keep" -> @
                                 [] asg.op = "null" -> Null
                                 [] asg.op = "undefined" -> Undefined
                                 [] asg.op = "assign" -> o,
                    !.lastOp = asg.op]
       IN  \E f \in {plugin_persist(q, store)} :
              Finish(r, f.store, f.q, h, "done", Deref(h, q.loaded),
                     HistFinish("done", asg.op = "keep" /\ hist.incd,
                                Stored(f.store, h, q.key)))

\* storage.read rejects (line 155): the middleware rejects with that error
PL_ReadFails(r, rawKey) ==
    /\ Variant("plugin")
    /\ Idle(r)
    /\ Finish(r, store, plugin_readFails(req[r], rawKey), heap,
              "read failed", Undefined, Broken)

\* the write of the initial value rejects (line 160): next() is not called
PL_InitFails(r) ==
    /\ Variant("plugin")
    /\ req[r].pc = "init"
    /\ req[r].loaded = Undefined
    /\ cfg.initial # Undefined
    /\ Finish(r, store, [req[r] EXCEPT !.writes = @ + 1], heap,
              "write failed", Undefined, Broken)

\* downstream returns, having left asg in ctx.pluginData, and the write or
\* delete of lines 180-188 rejects
PL_PersistFails(r, asg) ==
    /\ Variant("plugin")
    /\ req[r].pc = "next"
    /\ LET o == Alloc(heap)
           h == IF asg.op = "assign" THEN heap @@ (o :> asg.v) ELSE heap
           q == [req[r] EXCEPT
                    !.loaded = CASE asg.op = "keep" -> @
                                 [] asg.op = "null" -> Null
                                 [] asg.op = "undefined" -> Undefined
                                 [] asg.op = "assign" -> o,
                    !.lastOp = asg.op]
       IN  \E f \in {plugin_persistFails(q)} :
              Finish(r, store, f.q, h, f.status, Deref(h, q.loaded), Broken)

\* downstream throws: the error propagates and lines 180-188 do not run
PL_Throw(r) ==
    /\ Variant("plugin")
    /\ req[r].pc = "next"
    /\ Finish(r, store, req[r], heap, "failed", Deref(heap, req[r].loaded), Broken)

----------------------------------------------------------------------------
(* createTextVaultPlugin *)

MaxEntries == 2

\* the texts a caller may pass to add(), and text.trim()
Texts == {" ", "x"}
trim(text) == IF text = " " THEN "" ELSE text

defaultState == [entries |-> <<>>, lastSavedAt |-> Null]

unshift(entries, text) == <<text>> \o entries

\* splice(index, 1) with index counted from 0
splice(entries, index) ==
    [i \in 1..(Len(entries) - 1) |-> IF i <= index THEN entries[i] ELSE entries[i + 1]]

\* the start of createTextVaultPlugin reading the adapter whether or not a key resolved
createTextVaultPlugin_start_alwaysRead(q, storageKey, m, h) ==
    LET rd == AdapterRead(m, storageKey, now)
        o == Alloc(h)
        fresh == rd.ret = Undefined \/ rd.ret = Null
    IN  [store |-> rd.store,
         heap |-> IF fresh THEN h @@ (o :> defaultState) ELSE h,
         found |-> rd.ret,
         q |-> [q EXCEPT !.pc = "next", !.key = storageKey, !.reads = @ + 1,
                         !.loaded = IF fresh THEN o ELSE rd.ret, !.nexts = @ + 1]]

\* lines 119-124: resolve the key, read or synthesize the state
createTextVaultPlugin_start(q, storageKey, m, h) ==
    LET enabled == storageKey # NoKey
        rd == IF enabled THEN AdapterRead(m, storageKey, now)
              ELSE [store |-> m, ret |-> Undefined]
        o == Alloc(h)
        fresh == rd.ret = Undefined \/ rd.ret = Null
    IN  [store |-> rd.store,
         heap |-> IF fresh THEN h @@ (o :> defaultState) ELSE h,
         found |-> rd.ret,
         q |-> [q EXCEPT !.pc = "next", !.key = storageKey,
                         !.reads = IF enabled THEN @ + 1 ELSE @,
                         !.loaded = IF fresh THEN o ELSE rd.ret,
                         !.nexts = @ + 1]]

\* a persist step that writes the state even when no entry is left
createTextVaultPlugin_persist_writeEmpty(q, m, h) ==
    IF q.key = NoKey \/ ~q.dirty THEN [store |-> m, heap |-> h, q |-> q]
    ELSE [store |-> AdapterWrite(m, q.key, q.loaded, now),
          heap |-> [h EXCEPT ![q.loaded].lastSavedAt = now],
          q |-> [q EXCEPT !.writes = @ + 1]]

\* lines 165-171: nothing, delete or write
createTextVaultPlugin_persist(q, m, h) ==
    IF q.key = NoKey \/ ~q.dirty THEN [store |-> m, heap |-> h, q |-> q]
    ELSE IF Len(h[q.loaded].entries) = 0
    THEN [store |-> AdapterDelete(m, q.key), heap |-> h, q |-> [q EXCEPT !.deletes = @ + 1]]
    ELSE [store |-> AdapterWrite(m, q.key, q.loaded, now),
          heap |-> [h EXCEPT ![q.loaded].lastSavedAt = now],
          q |-> [q EXCEPT !.writes = @ + 1]]

TV_Start(r, raw) ==
    /\ Variant("createTextVaultPlugin")
    /\ Idle(r)
    /\ \E s \in {createTextVaultPlugin_start(req[r], raw, store, heap)} :
          Delegate(r, s.store, s.q, s.heap, s.found # Undefined,
                   Len(s.heap[s.q.loaded].entries), Broken)

\* add(text) that writes the state through to the adapter at once
TV_add_writeThrough(r, text) ==
    /\ Variant("createTextVaultPlugin")
    /\ req[r].pc = "next"
    /\ Len(heap[req[r].loaded].entries) < MaxEntries
    /\ IF req[r].key = NoKey \/ trim(text) = ""
       THEN Step(r, store, req[r], heap, Broken)
       ELSE Step(r, AdapterWrite(store, req[r].key, req[r].loaded, now),
                 [req[r] EXCEPT !.dirty = TRUE, !.writes = @ + 1],
                 [heap EXCEPT ![req[r].loaded].entries = unshift(@, trim(text))], Broken)

\* downstream calls ctx.textVault.add(text)
TV_add(r, text) ==
    /\ Variant("createTextVaultPlugin")
    /\ req[r].pc = "next"
    /\ Len(heap[req[r].loaded].entries) < MaxEntries
    /\ IF req[r].key = NoKey \/ trim(text) = ""
       THEN Step(r, store, req[r], heap, Broken)
       ELSE Step(r, store, [req[r] EXCEPT !.dirty = TRUE],
                 [heap EXCEPT ![req[r].loaded].entries = unshift(@, trim(text))], Broken)

\* downstream calls ctx.textVault.remove(index), index an integer
TV_remove(r, index) ==
    /\ Variant("createTextVaultPlugin")
    /\ req[r].pc = "next"
    /\ IF req[r].key = NoKey \/ index < 0 \/ index >= Len(heap[req[r].loaded].entries)
       THEN Step(r, store, req[r], heap, Broken)
       ELSE Step(r, store, [req[r] EXCEPT !.dirty = TRUE],
                 [heap EXCEPT ![req[r].loaded].entries = splice(@, index)], Broken)

\* downstream calls ctx.textVault.clear()
TV_clear(r) ==
    /\ Variant("createTextVaultPlugin")
    /\ req[r].pc = "next"
    /\ IF req[r].key = NoKey \/ Len(heap[req[r].loaded].entries) = 0
       THEN Step(r, store, req[r], heap, Broken)
       ELSE Step(r, store, [req[r] EXCEPT !.dirty = TRUE],
                 [heap EXCEPT ![req[r].loaded].entries = <<>>], Broken)

TV_Return(r) ==
    /\ Variant("createTextVaultPlugin")
    /\ req[r].pc = "next"
    /\ \E f \in {createTextVaultPlugin_persist(req[r], store, heap)} :
          Finish(r, f.store, f.q, f.heap, "done", Len(heap[req[r].loaded].entries), Broken)

\* downstream throws: the error propagates and lines 165-171 do not run
TV_Throw(r) ==
    /\ Variant("createTextVaultPlugin")
    /\ req[r].pc = "next"
    /\ Finish(r, store, req[r], heap, "failed", Len(heap[req[r].loaded].entries), Broken)

----------------------------------------------------------------------------
(* createSessionBridge (plugin/mod.ts) *)

\* a string (or undefined) in a condition: undefined and "" are falsy
TruthyString(str) == str # NoKey /\ str # ""

\* lines 80-83
getSessionKey(key, prefix) == IF TruthyString(key) THEN prefix \o key ELSE NoKey

\* the session middleware asks the bridge for the key of an update; without
\* a key it runs downstream without a session
SB_getSessionKey(r, raw) ==
    /\ Variant("createSessionBridge")
    /\ Idle(r)
    /\ LET key == getSessionKey(raw, cfg.prefix)
           q == [req[r] EXCEPT !.raw = raw, !.key = key]
       IN  IF key = NoKey
           THEN Finish(r, store, q, heap, "skipped", Undefined, Broken)
           ELSE Step(r, store, [q EXCEPT !.pc = "session"], heap, Broken)

\* bridge.storage.write(key, value) with the session key (line 72)
SB_write(r, v) ==
    /\ Variant("createSessionBridge")
    /\ req[r].pc = "session"
    /\ LET o == Alloc(heap)
       IN  Finish(r, AdapterWrite(store, req[r].key, o, now),
                  [req[r] EXCEPT !.writes = @ + 1], heap @@ (o :> v), "done", v, Broken)

\* bridge.storage.delete(key) with the session key (line 73)
SB_delete(r) ==
    /\ Variant("createSessionBridge")
    /\ req[r].pc = "session"
    /\ Finish(r, AdapterDelete(store, req[r].key),
              [req[r] EXCEPT !.deletes = @ + 1], heap, "done", Undefined, Broken)

----------------------------------------------------------------------------
(* The middleware under a stream of updates *)

Cfgs ==
    {[variant |-> "createStoragePlugin", initial |-> i, persistInitial |-> p, prefix |-> ""] :
        i \in Initials \ {Undefined}, p \in BOOLEAN}
    \cup {[variant |-> "createStoragePlugin", initial |-> Undefined,
           persistInitial |-> TRUE, prefix |-> ""]}
    \cup {[variant |-> "plugin", initial |-> i, persistInitial |-> TRUE, prefix |-> x] :
            i \in Initials, x \in Prefixes}
    \cup {[variant |-> "createTextVaultPlugin", initial |-> Undefined,
           persistInitial |-> TRUE, prefix |-> ""]}
    \cup {[variant |-> "createSessionBridge", initial |-> Undefined,
           persistInitial |-> TRUE, prefix |-> x] : x \in Prefixes}

AdapterOf(variant) ==
    CASE variant = "createStoragePlugin" -> "createInMemoryAdapter"
      [] variant = "plugin" -> "MemoryStorage"
      [] variant = "createTextVaultPlugin" -> "MemoryStorageAdapter"
      [] variant = "createSessionBridge" -> "MemoryStorageAdapter"

LifecycleInit ==
    /\ cfg \in Cfgs
    /\ kind = AdapterOf(cfg.variant)
    /\ ttl = Undefined
    /\ store = <<>>
    /\ now = 0
    /\ iter = NoIter
    /\ latest = [k \in AdapterKeys |-> Undefined]
    /\ writtenAt = [k \in AdapterKeys |-> Undefined]
    /\ last = NoOp
    /\ req = [r \in Reqs |-> IdleReq]
    /\ heap = <<>>
    /\ ev = NoEvent
    /\ hist = NoHist
    /\ kb = NoCall

LifecycleNext ==
    \/ \E r \in Reqs, raw \in KeyResults : SP_Start(r, raw)
    \/ \E r \in Reqs : SP_Return(r)
    \/ \E r \in Reqs : SP_Throw(r)
    \/ \E r \in Reqs : PL_NoKey(r)
    \/ \E r \in Reqs, rawKey \in RawKeys : PL_Start(r, rawKey)
    \/ \E r \in Reqs : PL_Init(r)
    \/ \E r \in Reqs : PL_increment(r)
    \/ \E r \in Reqs, asg \in Assignments : PL_Return(r, asg)
    \/ \E r \in Reqs : PL_Throw(r)
    \/ \E r \in Reqs, raw \in KeyResults : TV_Start(r, raw)
    \/ \E r \in Reqs, text \in Texts : TV_add(r, text)
    \/ \E r \in Reqs, index \in 0..(MaxEntries - 1) : TV_remove(r, index)
    \/ \E r \in Reqs : TV_clear(r)
    \/ \E r \in Reqs : TV_Return(r)
    \/ \E r \in Reqs : TV_Throw(r)
    \/ \E r \in Reqs, raw \in KeyResults : SB_getSessionKey(r, raw)
    \/ \E r \in Reqs, v \in Vals : SB_write(r, v)
    \/ \E r \in Reqs : SB_delete(r)

LifecycleSpec == LifecycleInit /\ [][LifecycleNext]_vars

----------------------------------------------------------------------------
(* createStoragePlugin and plugin() over an adapter whose calls may reject,
   the host handing over one update at a time *)

FailingInit ==
    /\ LifecycleInit
    /\ cfg.variant \in {"createStoragePlugin", "plugin"}

\* the one invocation in flight
Sole == CHOOSE r \in Reqs : \A x \in Reqs : r <= x

FailingNext ==
    \/ \E raw \in KeyResults : SP_Start(Sole, raw)
    \/ SP_Return(Sole)
    \/ SP_Throw(Sole)
    \/ \E raw \in KeyResults : SP_ReadFails(Sole, raw)
    \/ SP_PersistFails(Sole)
    \/ SP_ThrowPersistFails(Sole)
    \/ PL_NoKey(Sole)
    \/ \E rawKey \in RawKeys : PL_Start(Sole, rawKey)
    \/ PL_Init(Sole)
    \/ PL_increment(Sole)
    \/ \E asg \in Assignments : PL_Return(Sole, asg)
    \/ PL_Throw(Sole)
    \/ \E rawKey \in RawKeys : PL_ReadFails(Sole, rawKey)
    \/ PL_InitFails(Sole)
    \/ \E asg \in Assignments : PL_PersistFails(Sole, asg)

FailingSpec == FailingInit /\ [][FailingNext]_vars

----------------------------------------------------------------------------
(* createStoragePlugin, plugin() and createTextVaultPlugin under one update at
   a time, downstream returning or throwing; the history keeps what the
   adapter held when downstream started *)

SequentialInit ==
    /\ cfg \in {c \in Cfgs : c.variant \in {"createStoragePlugin", "plugin",
                                             "createTextVaultPlugin"}}
    /\ kind = AdapterOf(cfg.variant)
    /\ ttl = Undefined
    /\ store = <<>>
    /\ now = 0
    /\ iter = NoIter
    /\ latest = [k \in AdapterKeys |-> Undefined]
    /\ writtenAt = [k \in AdapterKeys |-> Undefined]
    /\ last = [NoOp EXCEPT !.op = "snapshot"]
    /\ req = [r \in Reqs |-> IdleReq]
    /\ heap = <<>>
    /\ ev = NoEvent
    /\ hist = NoHist
    /\ kb = NoCall

SequentialNext ==
    \/ \E raw \in KeyResults : SP_Start(Sole, raw)
    \/ SP_Return(Sole)
    \/ SP_Throw(Sole)
    \/ PL_NoKey(Sole)
    \/ \E rawKey \in RawKeys : PL_Start(Sole, rawKey)
    \/ PL_Init(Sole)
    \/ PL_increment(Sole)
    \/ \E asg \in Assignments : PL_Return(Sole, asg)
    \/ PL_Throw(Sole)
    \/ \E raw \in KeyResults : TV_Start(Sole, raw)
    \/ \E text \in Texts : TV_add(Sole, text)
    \/ \E index \in 0..(MaxEntries - 1) : TV_remove(Sole, index)
    \/ TV_clear(Sole)
    \/ TV_Return(Sole)
    \/ TV_Throw(Sole)

SequentialSpec == SequentialInit /\ [][SequentialNext]_vars

----------------------------------------------------------------------------
(* createStoragePlugin and plugin() with two updates in flight at once, their
   steps interleaved in any order *)

IsolationInit ==
    /\ LifecycleInit
    /\ cfg.variant \in {"createStoragePlugin", "plugin"}
    /\ cfg.persistInitial
    /\ cfg.initial # Undefined

IsolationNext ==
    \/ \E r \in Reqs, raw \in KeyResults : SP_Start(r, raw)
    \/ \E r \in Reqs : SP_Return(r)
    \/ \E r \in Reqs : SP_Throw(r)
    \/ \E r \in Reqs : PL_NoKey(r)
    \/ \E r \in Reqs, rawKey \in RawKeys : PL_Start(r, rawKey)
    \/ \E r \in Reqs : PL_Init(r)
    \/ \E r \in Reqs : PL_increment(r)
    \/ \E r \in Reqs, asg \in Assignments : PL_Return(r, asg)
    \/ \E r \in Reqs : PL_Throw(r)

IsolationSpec == IsolationInit /\ [][IsolationNext]_vars

----------------------------------------------------------------------------
(* The StorageItem handle of createStoragePlugin call by call, one update at a
   time: downstream makes any sequence of set, update and clear calls and
   then returns or throws. The history keeps in last the latest call (op), the
   argument of a set (ret), whether the call before it was clear (flag), and
   the content of the object the handle holds if downstream created it (val) *)

HandleInit ==
    /\ LifecycleInit
    /\ cfg.variant = "createStoragePlugin"

\* the handle and the object downstream created, as HandleCall takes them
Handle(q, l) == [q |-> q, fresh |-> l.val, calls |-> "other"]

\* item.get() (line 84), dereferenced
HandleGet(x, h) ==
    IF item_get(x.q) = Alloc(h) THEN x.fresh ELSE Deref(h, item_get(x.q))

\* downstream makes one call on ctx.storageItem
IT_call(call) ==
    /\ Variant("createStoragePlugin")
    /\ req[Sole].pc = "next"
    /\ req[Sole].key # NoKey
    /\ \E y \in {HandleCall(Handle(req[Sole], last), call, heap)} :
          /\ y.fresh = Undefined \/ y.fresh <= MaxCounter
          /\ req' = [req EXCEPT ![Sole] = y.q]
          /\ last' = [NoOp EXCEPT !.op = call.op, !.key = req[Sole].key, !.val = y.fresh,
                                  !.ret = call.v, !.flag = (last.op = "clear")]
    /\ ev' = NoEvent
    /\ hist' = Broken
    /\ UNCHANGED <<kind, ttl, store, now, iter, latest, writtenAt, cfg, heap, kb>>

\* downstream ends, by returning or by throwing, and the finally block runs
IT_End(status) ==
    /\ Variant("createStoragePlugin")
    /\ req[Sole].pc = "next"
    /\ LET h == IF last.val = Undefined THEN heap ELSE heap @@ (Alloc(heap) :> last.val)
       IN  \E f \in {createStoragePlugin_finally(req[Sole], store)} :
              /\ \E c \in {Collect(h, f.store, [req EXCEPT ![Sole] = IdleReq])} :
                     store' = c.store /\ req' = c.req /\ heap' = c.heap
              /\ ev' = Event("finish", status, f.q, Undefined, Undefined,
                             Deref(h, item_get(req[Sole])))
    /\ last' = [NoOp EXCEPT !.op = "finally", !.key = req[Sole].key]
    /\ hist' = Broken
    /\ UNCHANGED <<kind, ttl, now, iter, latest, writtenAt, cfg, kb>>

HandleNext ==
    \/ \E raw \in KeyResults : SP_Start(Sole, raw)
    \/ \E call \in HandleCalls : IT_call(call)
    \/ \E status \in {"done", "failed"} : IT_End(status)

HandleSpec == HandleInit /\ [][HandleNext]_vars

----------------------------------------------------------------------------
(* versionedStorage (plugin/mod.ts) over closures that read, write and delete
   one key of an adapter *)

\* the version tags a caller may fix at construction
Versions == {"1", "v2"}

\* readVersioned() returning undefined
NoVersioned == [defined |-> FALSE]

\* lines 37-41: readVersioned() given what options.read() returned
readVersioned(version, value) ==
    IF ~Truthy(value)
    THEN NoVersioned
    ELSE [defined |-> TRUE, version |-> version, value |-> value]

\* lines 42-44: what writeVersioned(value) hands to options.write
writeVersioned(version, value) == value

\* a deleteVersioned() that leaves the underlying store alone
deleteVersioned_none(m, key) == m

\* line 45: deleteVersioned is options.delete itself, here () => adapter.delete(key)
deleteVersioned(m, key) == AdapterDelete(m, key)

VersionedInit ==
    /\ kind \in AdapterKinds
    /\ ttl \in (IF kind = "MemoryStorageAdapter" THEN TtlOptions ELSE {Undefined})
    /\ store = <<>>
    /\ now = 0
    /\ iter = NoIter
    /\ latest = [k \in AdapterKeys |-> Undefined]
    /\ writtenAt = [k \in AdapterKeys |-> Undefined]
    /\ last = NoOp
    /\ cfg \in {[variant |-> "versionedStorage", version |-> v, initial |-> Undefined,
                 persistInitial |-> TRUE, prefix |-> ""] : v \in Versions}
    /\ req = [r \in Reqs |-> IdleReq]
    /\ heap = <<>>
    /\ ev = NoEvent
    /\ hist = NoHist
    /\ kb = NoCall

\* readVersioned() with read: () => adapter.read(k)
VS_readVersioned(k) ==
    /\ \E r \in {AdapterRead(store, k, now)} :
          /\ store' = r.store
          /\ last' = [NoOp EXCEPT !.op = "readVersioned", !.key = k, !.val = r.ret,
                                  !.ret = readVersioned(cfg.version, r.ret)]
    /\ UNCHANGED <<kind, ttl, now, iter, latest, writtenAt, cfg, req, heap, ev, hist, kb>>

\* lines 42-44: writeVersioned(v) with write: (value) => adapter.write(k, value)
VS_writeVersioned(k, v) ==
    /\ store' = AdapterWrite(store, k, writeVersioned(cfg.version, v), now)
    /\ latest' = [latest EXCEPT ![k] = v]
    /\ writtenAt' = [writtenAt EXCEPT ![k] = now]
    /\ last' = [NoOp EXCEPT !.op = "writeVersioned", !.key = k, !.val = v]
    /\ UNCHANGED <<kind, ttl, now, iter, cfg, req, heap, ev, hist, kb>>

\* line 45: deleteVersioned() with delete: () => adapter.delete(k)
VS_deleteVersioned(k) ==
    /\ store' = deleteVersioned(store, k)
    /\ latest' = [latest EXCEPT ![k] = Undefined]
    /\ writtenAt' = [writtenAt EXCEPT ![k] = Undefined]
    /\ last' = [NoOp EXCEPT !.op = "deleteVersioned", !.key = k, !.flag = MapHas(store, k)]
    /\ UNCHANGED <<kind, ttl, now, iter, cfg, req, heap, ev, hist, kb>>

VersionedNext ==
    \/ \E k \in AdapterKeys : VS_readVersioned(k)
    \/ \E k \in AdapterKeys, v \in Vals : VS_writeVersioned(k, v)
    \/ \E k \in AdapterKeys : VS_deleteVersioned(k)
    \/ Tick

VersionedSpec == VersionedInit /\ [][VersionedNext]_vars

----------------------------------------------------------------------------
(* createSessionBridge with the default key builder over a MemoryStorageAdapter:
   the session asks for the key of a context, then reads, writes or deletes
   through bridge.storage under that key *)

\* the contexts of the bridge: an optional chatId, here absent, the smallest
\* two ids or the largest
BridgeCtxs == {c \in Ctxs : c.from = Undefined /\ c.chat \in {Undefined, 0, 1, MaxId}}

\* bridge.storage.write applying the prefix to the key it is given
SessionBridge_storage_write_prefixed(m, key, value) ==
    AdapterWrite(m, cfg.prefix \o key, value, now)

\* line 71
SessionBridge_storage_read(m, key) == AdapterRead(m, key, now)

\* line 72
SessionBridge_storage_write(m, key, value) == AdapterWrite(m, key, value, now)

\* line 73
SessionBridge_storage_delete(m, key) == AdapterDelete(m, key)

BridgeInit ==
    /\ cfg \in {c \in Cfgs : c.variant = "createSessionBridge"}
    /\ kind = AdapterOf(cfg.variant)
    /\ ttl = Undefined
    /\ store = <<>>
    /\ now = 0
    /\ iter = NoIter
    /\ latest = [k \in AdapterKeys |-> Undefined]
    /\ writtenAt = [k \in AdapterKeys |-> Undefined]
    /\ last = NoOp
    /\ req = [r \in Reqs |-> IdleReq]
    /\ heap = <<>>
    /\ ev = NoEvent
    /\ hist = NoHist
    /\ kb = NoCall

\* lines 80-83 with buildKey = defaultKeyBuilder
BR_getSessionKey(ctx) ==
    /\ kb' = [ctx |-> ctx, builder |-> "getSessionKey",
              key |-> getSessionKey(defaultKeyBuilder(ctx), cfg.prefix)]
    /\ last' = [NoOp EXCEPT !.op = "getSessionKey"]
    /\ UNCHANGED <<kind, ttl, store, now, iter, latest, writtenAt, lvars>>

\* bridge.storage.read(key!) with the key getSessionKey returned
BR_read ==
    /\ kb.key # NoKey
    /\ \E r \in {SessionBridge_storage_read(store, kb.key)} :
          /\ store' = r.store
          /\ last' = [NoOp EXCEPT !.op = "read", !.key = kb.key, !.ret = r.ret]
    /\ UNCHANGED <<kind, ttl, now, iter, latest, writtenAt, lvars, kb>>

\* bridge.storage.write(key!, v)
BR_write(v) ==
    /\ kb.key # NoKey
    /\ store' = SessionBridge_storage_write(store, kb.key, v)
    /\ last' = [NoOp EXCEPT !.op = "write", !.key = kb.key, !.val = v]
    /\ UNCHANGED <<kind, ttl, now, iter, latest, writtenAt, lvars, kb>>

\* bridge.storage.delete(key!)
BR_delete ==
    /\ kb.key # NoKey
    /\ store' = SessionBridge_storage_delete(store, kb.key)
    /\ last' = [NoOp EXCEPT !.op = "delete", !.key = kb.key]
    /\ UNCHANGED <<kind, ttl, now, iter, latest, writtenAt, lvars, kb>>

BridgeNext ==
    \/ \E ctx \in BridgeCtxs : BR_getSessionKey(ctx)
    \/ BR_read
    \/ \E v \in Vals : BR_write(v)
    \/ BR_delete

BridgeSpec == BridgeInit /\ [][BridgeNext]_vars

----------------------------------------------------------------------------
(* The default key builders applied to a context *)

KeyInit ==
    /\ kb \in {[NoCall EXCEPT !.ctx = c] : c \in Ctxs}
    /\ cfg = NoCfg
    /\ kind = "MemoryStorageAdapter"
    /\ ttl = Undefined
    /\ store = <<>>
    /\ now = 0
    /\ iter = NoIter
    /\ latest = [k \in AdapterKeys |-> Undefined]
    /\ writtenAt = [k \in AdapterKeys |-> Undefined]
    /\ last = NoOp
    /\ req = [r \in Reqs |-> IdleReq]
    /\ heap = <<>>
    /\ ev = NoEvent
    /\ hist = NoHist

\* the middleware asks its default key builder for the key of the context
KB_defaultKey ==
    /\ kb' = [kb EXCEPT !.builder = "defaultKey", !.key = defaultKey(kb.ctx)]
    /\ UNCHANGED <<kind, store, avars, lvars>>

KB_TextVault_defaultKey ==
    /\ kb' = [kb EXCEPT !.builder = "TextVault_defaultKey",
                        !.key = TextVault_defaultKey(kb.ctx)]
    /\ UNCHANGED <<kind, store, avars, lvars>>

KB_defaultGetStorageKey ==
    /\ kb' = [kb EXCEPT !.builder = "defaultGetStorageKey",
                        !.key = defaultGetStorageKey(kb.ctx)]
    /\ UNCHANGED <<kind, store, avars, lvars>>

KB_defaultKeyBuilder ==
    /\ kb' = [kb EXCEPT !.builder = "defaultKeyBuilder", !.key = defaultKeyBuilder(kb.ctx)]
    /\ UNCHANGED <<kind, store, avars, lvars>>

KeyNext ==
    \/ KB_defaultKey
    \/ KB_TextVault_defaultKey
    \/ KB_defaultGetStorageKey
    \/ KB_defaultKeyBuilder

KeySpec == KeyInit /\ [][KeyNext]_vars

----------------------------------------------------------------------------
(* Properties of the middleware *)

Finished(variants) == ev.type = "finish" /\ cfg.variant \in variants

Delegated(variants) == ev.type = "delegate" /\ cfg.variant \in variants

\* C1 (lifecycle persist): in createStoragePlugin and plugin(), when the key
\* resolved and downstream left a value Y in the handle (by set or update, or
\* in ctx.pluginData) and returned normally, a read of the adapter at the
\* request's key right after the request returns Y.
LifecyclePersist ==
    /\ Finished({"createStoragePlugin", "plugin"})
    /\ ev.status = "done"
    /\ ev.q.key # NoKey
    /\ ev.q.lastOp \in {"set", "update", "keep", "assign"}
    => Stored(store, heap, ev.q.key) = ev.final

\* C1 witness: a createStoragePlugin request that found the initial value 0
\* and set the handle to 1 has returned, and the adapter holds 1
LifecyclePersistWitness ==
    /\ Finished({"createStoragePlugin"})
    /\ ev.status = "done"
    /\ cfg.initial = 0
    /\ ev.q.lastOp = "set"
    /\ ev.final = 1
    /\ Stored(store, heap, ev.q.key) = 1

\* C2 (lifecycle init): in createStoragePlugin and plugin(), when the adapter
\* held nothing under the resolved key and an initial factory producing X was
\* given, what downstream sees through the handle when it starts is X.
LifecycleInitial ==
    /\ Delegated({"createStoragePlugin", "plugin"})
    /\ ev.q.key # NoKey
    /\ ev.found = Undefined
    /\ cfg.initial # Undefined
    => ev.seen = cfg.initial

\* C2 witness: downstream of plugin() starts on a key that held nothing and
\* sees the initial value
LifecycleInitialWitness ==
    /\ Delegated({"plugin"})
    /\ ev.found = Undefined
    /\ cfg.initial = 0
    /\ ev.seen = 0

\* a request whose downstream ended with the handle cleared: clear() as the last
\* handle call in createStoragePlugin, null or undefined left in ctx.pluginData
\* in plugin()
ClearedRequest ==
    \/ Finished({"createStoragePlugin"}) /\ ev.q.key # NoKey /\ ev.q.lastOp = "clear"
    \/ Finished({"plugin"}) /\ ev.status = "done" /\ ev.q.lastOp \in {"null", "undefined"}

NoKeySkip ==
    /\ Finished({"createStoragePlugin", "createTextVaultPlugin"})
    /\ ev.q.key = NoKey
    => /\ ev.q.nexts = 1
       /\ ev.q.reads = 0
       /\ ev.q.writes = 0
       /\ ev.q.deletes = 0

\* C4 witness: a createTextVaultPlugin request without a key has returned
\* while the adapter holds a value another request stored
NoKeySkipWitness ==
    /\ Finished({"createTextVaultPlugin"})
    /\ ev.q.key = NoKey
    /\ ev.status = "done"
    /\ ev.q.nexts = 1
    /\ Len(store) > 0

\* C5 (continuity): while every request so far ran alone, resolved to the
\* same key, incremented the counter once and returned, each request after
\* the first sees at its start the counter the previous one left stored, and
\* after n requests the stored counter is the initial counter plus n.
Continuity ==
    /\ cfg.variant \in {"plugin", "createStoragePlugin"}
    /\ cfg.initial # Undefined
    /\ hist.clean
    /\ hist.n > 0
    => /\ ev.type = "delegate" => ev.seen = hist.value
       /\ ev.type = "finish" =>
             /\ hist.value = cfg.initial + hist.n
             /\ Stored(store, heap, hist.key) = hist.value

\* C5 witness: MaxCounter sequential plugin() requests on one key have each
\* incremented the counter and returned
ContinuityWitness ==
    /\ Finished({"plugin"})
    /\ hist.clean
    /\ hist.n = MaxCounter
    /\ Stored(store, heap, hist.key) = cfg.initial + MaxCounter

\* the request that just ended had a key: the session bridge produced the
\* key prefix + b, createStoragePlugin and plugin() read the adapter at it
ResolvedKey ==
    /\ ev.q.key = cfg.prefix \o ev.q.raw
    /\ IF cfg.variant = "createSessionBridge" THEN ev.status # "skipped" ELSE ev.q.reads = 1

\* C13 (no key versus empty key): a request of the session bridge, of
\* createStoragePlugin or of plugin() ends as a request with a key exactly
\* when its key builder returned a string, the empty string included; only
\* undefined gives the no-key outcome.
EmptyKeyIsAKey ==
    Finished({"createSessionBridge", "createStoragePlugin", "plugin"})
    => (ResolvedKey <=> ev.q.raw # NoKey)

\* the part of C13 about createStoragePlugin and plugin()
EmptyKeyIsAKeyMiddleware ==
    Finished({"createStoragePlugin", "plugin"})
    => (ResolvedKey <=> ev.q.raw # NoKey)

\* a createStoragePlugin request whose key builder returned "" has read the
\* adapter and stored a value under ""
EmptyKeyIsAKeyMiddlewareWitness ==
    /\ Finished({"createStoragePlugin"})
    /\ ev.q.raw = ""
    /\ ev.q.reads = 1
    /\ MapHas(store, "")

\* downstream of createStoragePlugin starts on a key that held nothing, with
\* an initial factory and persistInitial = true
InitialSynthesized ==
    /\ Delegated({"createStoragePlugin"})
    /\ cfg.persistInitial
    /\ cfg.initial # Undefined
    /\ ev.q.key # NoKey
    /\ ev.found = Undefined

\* C14 (eager persistence of the initial value): when createStoragePlugin with
\* persistInitial = true synthesized the initial value, the adapter holds it
\* under the key by the time downstream starts.
EagerInitial ==
    InitialSynthesized => Stored(store, heap, ev.q.key) = cfg.initial

\* what createStoragePlugin does instead: when downstream starts, the initial
\* value is in the handle only, marked dirty; no write was made and the
\* adapter holds nothing under the key
InitialDeferred ==
    InitialSynthesized
    => /\ ev.seen = cfg.initial
       /\ ev.q.dirty
       /\ ev.q.writes = 0
       /\ Stored(store, heap, ev.q.key) = Undefined

\* C15 (persistInitial = false): when a createStoragePlugin request with
\* persistInitial = false found nothing under its key, got the initial value
\* synthesized and ends without downstream having called set, update or
\* clear, the handle still holds the initial value, the request has made no
\* write and no delete, and the adapter holds nothing under the key
\* afterwards, provided no other request stored something there meanwhile
\* (in particular when the request ran alone).
PersistInitialOff ==
    [][(/\ ev'.type = "finish"
        /\ cfg.variant = "createStoragePlugin"
        /\ ~cfg.persistInitial
        /\ cfg.initial # Undefined
        /\ ev'.q.key # NoKey
        /\ ~ev'.q.found
        /\ ev'.q.lastOp = "none")
       => /\ ev'.final = cfg.initial
          /\ ev'.q.writes = 0
          /\ ev'.q.deletes = 0
          /\ (hist.clean \/ Stored(store, heap, ev'.q.key) = Undefined)
                => Stored(store', heap', ev'.q.key) = Undefined]_vars

\* C15 witness: the first request, run alone with persistInitial = false on an
\* absent key, has ended without a handle call and the adapter is still empty
PersistInitialOffWitness ==
    /\ Finished({"createStoragePlugin"})
    /\ ~cfg.persistInitial
    /\ cfg.initial = 0
    /\ ev.q.key = "7"
    /\ ~ev.q.found
    /\ ev.q.lastOp = "none"
    /\ ev.final = 0
    /\ ev.status = "done"
    /\ store = <<>>

\* C16 (strict ordering of write-back): in createStoragePlugin, plugin() and
\* createTextVaultPlugin, no step taken while downstream of a request is
\* still running issues a write or a delete for that request: the calls that
\* persist the final handle state are issued in the step that follows the end
\* of next().
StrictOrdering ==
    [][\A r \in Reqs :
          (/\ cfg.variant \in {"createStoragePlugin", "plugin", "createTextVaultPlugin"}
           /\ req[r].pc = "next"
           /\ req'[r].pc = "next")
          => /\ req'[r].writes = req[r].writes
             /\ req'[r].deletes = req[r].deletes
             /\ req[r].deletes = 0]_vars

\* C16 witness: downstream of a createTextVaultPlugin request has added a
\* text and is still running; nothing has been written to the adapter
StrictOrderingWitness ==
    /\ cfg.variant = "createTextVaultPlugin"
    /\ \E r \in Reqs :
          /\ req[r].pc = "next"
          /\ req[r].dirty
          /\ req[r].writes = 0
          /\ Len(heap[req[r].loaded].entries) = 1
    /\ store = <<>>

\* C17 (finally-style guarantee): a createStoragePlugin request with a key,
\* whether downstream returned or threw, has run the post-delegation step
\* once: one write or one delete if the handle is dirty and none otherwise;
\* what downstream set before it ended is in the adapter, what it cleared is
\* gone; and a request whose downstream threw has failed.
FinallyGuarantee ==
    /\ Finished({"createStoragePlugin"})
    /\ ev.status \in {"done", "failed"}
    /\ ev.q.key # NoKey
    => /\ ev.q.writes + ev.q.deletes = (IF ev.q.dirty THEN 1 ELSE 0)
       /\ ev.q.lastOp \in {"set", "update"}
             => ev.q.writes = 1 /\ Stored(store, heap, ev.q.key) = ev.final
       /\ ev.q.lastOp = "clear"
             => ev.q.deletes = 1 /\ Stored(store, heap, ev.q.key) = Undefined

\* C17 witness: downstream set the handle to 1 and threw; the request failed
\* and the adapter holds 1
FinallyGuaranteeWitness ==
    /\ Finished({"createStoragePlugin"})
    /\ ev.status = "failed"
    /\ ev.q.lastOp = "set"
    /\ ev.final = 1
    /\ ev.q.writes = 1
    /\ Stored(store, heap, ev.q.key) = 1

\* C18 (bounded adapter traffic): a finished request of createStoragePlugin,
\* plugin() or createTextVaultPlugin whose key resolved has called
\* adapter.read exactly once and adapter.write and adapter.delete at most
\* once in total.
BoundedTraffic ==
    /\ Finished({"createStoragePlugin", "plugin", "createTextVaultPlugin"})
    /\ ev.status \in {"done", "failed"}
    /\ ev.q.key # NoKey
    => /\ ev.q.reads = 1
       /\ ev.q.writes + ev.q.deletes <= 1

\* the bound of C18 for the two variants that persist only after downstream
BoundedTrafficDeferred ==
    /\ Finished({"createStoragePlugin", "createTextVaultPlugin"})
    /\ ev.status \in {"done", "failed"}
    /\ ev.q.key # NoKey
    => /\ ev.q.reads = 1
       /\ ev.q.writes + ev.q.deletes <= 1

\* C19 (last-write-wins race): when two createStoragePlugin requests loaded
\* the same key before either persisted, and each incremented the counter
\* once and returned, the second to finish has written its own value, the
\* adapter holds that value, and it is the loaded counter plus one: the
\* increment of the request that persisted first is lost.
LastWriteWins ==
    /\ Finished({"createStoragePlugin"})
    /\ hist.raced
    /\ hist.n = 2
    => /\ ev.q.writes = 1
       /\ Stored(store, heap, hist.key) = ev.final
       /\ ev.final = (IF cfg.initial = Undefined THEN 0 ELSE cfg.initial) + 1

\* C19 witness: both racing requests have finished and the adapter holds one
\* increment where two were made
LastWriteWinsWitness ==
    /\ Finished({"createStoragePlugin"})
    /\ hist.raced
    /\ hist.n = 2
    /\ \A r \in Reqs : req[r].pc = "idle"
    /\ cfg.initial = 0
    /\ Stored(store, heap, hist.key) = 1

\* C20 (adapter failures propagate without retry): a createStoragePlugin or
\* plugin() request that ended because adapter.read rejected has called read
\* once, has not called next() and has issued no write and no delete; one
\* that ended because adapter.write or adapter.delete rejected has called
\* the rejecting operation once for that step (plugin() has one earlier
\* write when it stored the initial value before next()).
AdapterFailurePropagates ==
    Finished({"createStoragePlugin", "plugin"})
    => /\ ev.status = "read failed"
             => /\ ev.q.reads = 1
                /\ ev.q.nexts = 0
                /\ ev.q.writes = 0
                /\ ev.q.deletes = 0
       /\ ev.status = "write failed"
             => /\ ev.q.reads = 1
                /\ ev.q.deletes = 0
                /\ ev.q.writes =
                      (IF /\ cfg.variant = "plugin"
                          /\ ev.q.nexts = 1
                          /\ ~ev.q.found
                       THEN 2 ELSE 1)
       /\ ev.status = "delete failed"
             => /\ ev.q.reads = 1
                /\ ev.q.nexts = 1
                /\ ev.q.deletes = 1
                /\ ev.q.writes =
                      (IF cfg.variant = "plugin" /\ ~ev.q.found THEN 1 ELSE 0)

\* C20 witness: adapter.read rejected in createStoragePlugin; the request
\* ended with one read and without calling next()
AdapterFailurePropagatesWitness ==
    /\ Finished({"createStoragePlugin"})
    /\ ev.status = "read failed"
    /\ ev.q.reads = 1
    /\ ev.q.nexts = 0

\* the keys plugin() can address
PluginKeys == {p \o k : p \in Prefixes, k \in RawKeys}

\* C21 (no-key failure of plugin()): a plugin() request whose getStorageKey
\* returned undefined ends failed, without any read, write or delete call,
\* without next() having been called, and with the storage contents as they
\* were.
NoKeyFails ==
    [][(/\ cfg.variant = "plugin"
        /\ ev'.type = "finish"
        /\ ev'.q.key = NoKey)
       => /\ ev'.status = "failed"
          /\ ev'.q.reads = 0
          /\ ev'.q.writes = 0
          /\ ev'.q.deletes = 0
          /\ ev'.q.nexts = 0
          /\ \A k \in PluginKeys :
                Stored(store', heap', k) = Stored(store, heap, k)]_vars

\* C21 witness: a plugin() request without a key has failed while the storage
\* holds a value an earlier request stored
NoKeyFailsWitness ==
    /\ Finished({"plugin"})
    /\ ev.q.key = NoKey
    /\ ev.status = "failed"
    /\ ev.q.nexts = 0
    /\ Len(store) > 0

\* C22 (missing initial value in plugin()): a plugin() request without an
\* initial factory whose key resolved and whose read found nothing ends
\* failed after that one read, without next() having been called, without
\* ctx.pluginData having been set, and without a write or delete; and no
\* such request ever hands control to downstream.
MissingInitialFails ==
    /\ (/\ Finished({"plugin"})
        /\ cfg.initial = Undefined
        /\ ev.q.key # NoKey
        /\ ~ev.q.found)
       => /\ ev.status = "failed"
          /\ ev.q.reads = 1
          /\ ev.q.nexts = 0
          /\ ev.final = Undefined
          /\ ev.q.writes = 0
          /\ ev.q.deletes = 0
    /\ (Delegated({"plugin"}) /\ cfg.initial = Undefined) => ev.q.found

\* C22 witness: a plugin() request without an initial factory has read a key
\* that holds nothing and has failed
MissingInitialFailsWitness ==
    /\ Finished({"plugin"})
    /\ cfg.initial = Undefined
    /\ ev.q.key # NoKey
    /\ ev.q.reads = 1
    /\ ~ev.q.found
    /\ ev.status = "failed"
    /\ ev.q.nexts = 0

\* C23 (absence handle in createStoragePlugin): when a createStoragePlugin
\* request without an initial factory resolved its key and read nothing,
\* downstream is called with a handle whose exists() is false, whose get() is
\* undefined and whose getOr(f) is f; and when such a request ends without a
\* set or update as the latest handle call, it has written nothing (and has
\* made no adapter call at all after the read if downstream left the handle
\* alone).
AbsenceHandle ==
    [][/\ \A r \in Reqs :
             (/\ cfg.variant = "createStoragePlugin"
              /\ cfg.initial = Undefined
              /\ req[r].pc = "idle"
              /\ req'[r].pc = "next"
              /\ req'[r].key # NoKey
              /\ ~req'[r].found)
             => /\ req'[r].nexts = 1
                /\ ~item_exists(req'[r])
                /\ item_get(req'[r]) = Undefined
                /\ \A f \in Vals : item_getOr(req'[r], f) = f
       /\ (/\ cfg.variant = "createStoragePlugin"
           /\ cfg.initial = Undefined
           /\ ev'.type = "finish"
           /\ ev'.status \in {"done", "failed"}
           /\ ev'.q.key # NoKey
           /\ ~ev'.q.found
           /\ ev'.q.lastOp \in {"none", "clear"})
          => /\ ev'.q.writes = 0
             /\ ev'.q.lastOp = "none"
                   => /\ ev'.q.deletes = 0
                      /\ Stored(store', heap', ev'.q.key) = Stored(store, heap, ev'.q.key)]_vars

\* C23 witness: such a request has ended with the handle untouched and the
\* key still holds nothing
AbsenceHandleWitness ==
    /\ Finished({"createStoragePlugin"})
    /\ cfg.initial = Undefined
    /\ ev.status = "done"
    /\ ev.q.key # NoKey
    /\ ~ev.q.found
    /\ ev.q.nexts = 1
    /\ ev.q.lastOp = "none"
    /\ ev.final = Undefined
    /\ Stored(store, heap, ev.q.key) = Undefined

\* C32 (skip persist on downstream failure): when downstream of a plugin() or
\* createTextVaultPlugin request threw, the request failed, the middleware
\* issued no write and no delete after the throw, and a read of the key
\* returns what the adapter held when downstream started.
SkipPersistOnFailure ==
    /\ Finished({"plugin", "createTextVaultPlugin"})
    /\ ev.status = "failed"
    /\ ev.q.pc = "next"
    => /\ ev.q.deletes = 0
       /\ ev.q.writes = (IF Variant("plugin") /\ ~ev.q.found THEN 1 ELSE 0)
       /\ Stored(store, heap, ev.q.key) = ev.q.start

\* what holds when downstream threw: the request failed without a write or a
\* delete after the throw, and the adapter holds the object it held when
\* downstream started, in the state downstream left it in
SkipPersistCalls ==
    /\ Finished({"plugin", "createTextVaultPlugin"})
    /\ ev.status = "failed"
    /\ ev.q.pc = "next"
    => /\ ev.q.deletes = 0
       /\ ev.q.writes = (IF Variant("plugin") /\ ~ev.q.found THEN 1 ELSE 0)
       /\ Variant("plugin") => Stored(store, heap, ev.q.key) = ev.final
       /\ Variant("createTextVaultPlugin") /\ MapHas(store, ev.q.key)
          => Len(Stored(store, heap, ev.q.key).entries) = ev.final

\* C33 (dirty flag): a createStoragePlugin request that loaded a value from the
\* adapter and whose downstream called none of set, update and clear has
\* issued no write and no delete, and the adapter holds the value it held
\* when downstream started.
DirtyFlagSkips ==
    /\ Finished({"createStoragePlugin"})
    /\ ev.status \in {"done", "failed"}
    /\ ev.q.found
    /\ ev.q.lastOp = "none"
    => /\ ev.q.writes = 0
       /\ ev.q.deletes = 0
       /\ ev.q.start # Undefined
       /\ Stored(store, heap, ev.q.key) = ev.q.start

\* C33 witness: a request loaded the counter MaxCounter, downstream left the
\* handle alone and threw, and the adapter still holds MaxCounter
DirtyFlagSkipsWitness ==
    /\ Finished({"createStoragePlugin"})
    /\ ev.status = "failed"
    /\ ev.q.found
    /\ ev.q.lastOp = "none"
    /\ ev.q.reads = 1
    /\ Stored(store, heap, ev.q.key) = MaxCounter

LastHandleCallWins ==
    [][/\ (last'.op \in {"set", "update", "clear"} /\ req'[Sole].pc = "next")
          => /\ item_exists(req'[Sole]) <=> last'.op \in {"set", "update"}
             /\ last'.op = "set"
                => HandleGet(Handle(req'[Sole], last'), heap') = last'.ret
             /\ last'.op = "update"
                => HandleGet(Handle(req'[Sole], last'), heap')
                      = (IF last'.flag THEN 0
                         ELSE IF HandleGet(Handle(req[Sole], last), heap) = Undefined THEN 0
                         ELSE HandleGet(Handle(req[Sole], last), heap)) + 1
             /\ last'.op = "clear"
                => HandleGet(Handle(req'[Sole], last'), heap') = Undefined
       /\ (last.op \in {"set", "update", "clear"} /\ ev'.type = "finish")
          => IF last.op \in {"set", "update"}
             THEN /\ ev'.q.writes = 1
                  /\ ev'.q.deletes = 0
                  /\ Stored(store', heap', last.key)
                        = HandleGet(Handle(req[Sole], last), heap)
             ELSE /\ ev'.q.writes = 0
                  /\ ev'.q.deletes = 1
                  /\ ~MapHas(store', last.key)]_vars

\* C36 witness: on a key that was stored, downstream called update right
\* after clear, the updater received undefined, and the handle holds 1
LastHandleCallWinsWitness ==
    /\ Variant("createStoragePlugin")
    /\ req[Sole].pc = "next"
    /\ req[Sole].found
    /\ last.op = "update"
    /\ last.flag
    /\ item_exists(req[Sole])
    /\ HandleGet(Handle(req[Sole], last), heap) = 1

\* C37 (text vault storage invariant): with an adapter that started empty and
\* that only createTextVaultPlugin writes to, whenever no request is in
\* flight every value the adapter holds has a non-empty entries list.
VaultStoresNonEmpty ==
    (/\ Variant("createTextVaultPlugin")
     /\ \A r \in Reqs : req[r].pc = "idle")
    => \A i \in 1..Len(store) :
          Deref(heap, StoredRef(store[i].val)).entries # <<>>

\* C38 (key isolation): in createStoragePlugin and plugin(), a step changes
\* what the adapter holds under a key only if it is a step of a request whose
\* resolved key is that key: whatever the interleaving, the requests of other
\* keys leave the entry of a key as its own request left it.
KeyIsolation ==
    [][cfg.variant \in {"createStoragePlugin", "plugin"}
       => \A k \in PluginKeys :
             Stored(store', heap', k) # Stored(store, heap, k)
             => \E r \in Reqs :
                   /\ req[r].key = k \/ req'[r].key = k
                   /\ \/ req'[r] # req[r]
                      \/ req' = req /\ req[r].pc = "next"]_vars

\* C38 witness: a request has written under its key while a request of another
\* key is in flight, and the adapter holds an entry under each of the two keys
KeyIsolationWitness ==
    /\ Finished({"createStoragePlugin", "plugin"})
    /\ ev.status = "done"
    /\ ev.q.writes >= 1
    /\ MapHas(store, ev.q.key)
    /\ \E r \in Reqs :
          /\ req[r].pc = "next"
          /\ req[r].key \notin {NoKey, ev.q.key}
          /\ MapHas(store, req[r].key)

\* C39 (downstream error is what the host sees): a createStoragePlugin request
\* whose downstream threw E fails with E, also when the write or delete of
\* the post-delegation step rejects.
DownstreamErrorSeen ==
    (Finished({"createStoragePlugin"}) /\ ev.q.threw)
    => ev.status = "failed"

\* what holds when downstream threw: the request fails, with E unless the
\* adapter call of the finally block rejected, and then with that rejection
\* after one call of the rejecting operation
DownstreamErrorUnlessPersistFails ==
    (Finished({"createStoragePlugin"}) /\ ev.q.threw)
    => \/ ev.status = "failed"
       \/ ev.status = "write failed" /\ ev.q.writes = 1 /\ ev.q.dirty
       \/ ev.status = "delete failed" /\ ev.q.deletes = 1 /\ ev.q.dirty

\* C10 (key prefixing): with a non-empty prefix p, a request of plugin() or of
\* the session bridge whose key builder returned the string b uses the key
\* p + b, the adapter holds values under prefixed keys only, and nothing
\* under the unprefixed key b.
KeyPrefixing ==
    /\ Finished({"plugin", "createSessionBridge"})
    /\ cfg.prefix # ""
    /\ ev.q.raw # NoKey
    => /\ ev.q.key = cfg.prefix \o ev.q.raw
       /\ MapKeys(store) \subseteq {cfg.prefix \o b : b \in RawKeys}
       /\ ~MapHas(store, ev.q.raw)

\* the part of C10 about plugin() alone
KeyPrefixingPlugin ==
    /\ Finished({"plugin"})
    /\ cfg.prefix # ""
    /\ ev.q.raw # NoKey
    => /\ ev.q.key = cfg.prefix \o ev.q.raw
       /\ MapKeys(store) \subseteq {cfg.prefix \o b : b \in RawKeys}
       /\ ~MapHas(store, ev.q.raw)

\* a plugin() request with prefix "p:" and base key "7" has stored under "p:7"
KeyPrefixingPluginWitness ==
    /\ Finished({"plugin"})
    /\ cfg.prefix = "p:"
    /\ ev.q.raw = "7"
    /\ MapHas(store, "p:7")

----------------------------------------------------------------------------
(* Properties of the key builders *)

\* C11 (default key builder of createStoragePlugin and createTextVaultPlugin):
\* the key is the chat identifier as a string when the context has one,
\* otherwise the sender identifier as a string when it has one, and no key
\* only when it has neither.
DefaultKeyChatThenSender ==
    kb.builder \in {"defaultKey", "TextVault_defaultKey"}
    => /\ kb.key = (IF kb.ctx.chat # Undefined THEN toString(kb.ctx.chat)
                    ELSE IF kb.ctx.from # Undefined THEN toString(kb.ctx.from)
                    ELSE NoKey)
       /\ kb.key = NoKey <=> (kb.ctx.chat = Undefined /\ kb.ctx.from = Undefined)

\* C11 witness: createTextVaultPlugin's builder was given a context with a
\* sender and no chat and returned the sender identifier
DefaultKeyChatThenSenderWitness ==
    /\ kb.builder = "TextVault_defaultKey"
    /\ kb.ctx.chat = Undefined
    /\ kb.ctx.from = 2
    /\ kb.key = "2"

\* C12 (default key builder of plugin() and of createSessionBridge): the key
\* is the chat identifier when present, otherwise the sender identifier, and
\* no key only when the context has neither.
DefaultKeySenderFallback ==
    kb.builder \in {"defaultGetStorageKey", "defaultKeyBuilder"}
    => /\ kb.key = (IF kb.ctx.chat # Undefined THEN toString(kb.ctx.chat)
                    ELSE IF kb.ctx.from # Undefined THEN toString(kb.ctx.from)
                    ELSE NoKey)
       /\ kb.key = NoKey <=> (kb.ctx.chat = Undefined /\ kb.ctx.from = Undefined)

\* what defaultGetStorageKey and defaultKeyBuilder do instead: the key is the
\* chat identifier when present and no key otherwise, whatever the sender
DefaultKeyChatOnly ==
    kb.builder \in {"defaultGetStorageKey", "defaultKeyBuilder"}
    => kb.key = (IF kb.ctx.chat # Undefined THEN toString(kb.ctx.chat) ELSE NoKey)

----------------------------------------------------------------------------
(* Properties of versionedStorage *)

\* C24 (readVersioned): readVersioned() returns undefined exactly when the
\* underlying read returned absent, and for every value the underlying read
\* returned, 0 included, it returns {version, value} with the version fixed at
\* construction.
ReadVersionedWraps ==
    last.op = "readVersioned"
    => /\ last.ret.defined <=> last.val # Undefined
       /\ last.ret.defined
             => last.ret = [defined |-> TRUE, version |-> cfg.version, value |-> last.val]

\* what holds of readVersioned(): it wraps exactly the truthy values
ReadVersionedWrapsTruthy ==
    last.op = "readVersioned"
    => /\ last.ret.defined <=> Truthy(last.val)
       /\ last.ret.defined
             => last.ret = [defined |-> TRUE, version |-> cfg.version, value |-> last.val]

\* C31 (writeVersioned, deleteVersioned): writeVersioned(v) has exactly the
\* effect of the underlying write of v, so that the underlying store then holds
\* v itself with no version attached, and deleteVersioned() has exactly the
\* effect of the underlying delete.
VersionedDelegates ==
    [][/\ last'.op = "writeVersioned"
          => /\ store' = AdapterWrite(store, last'.key, last'.val, now)
             /\ AdapterRead(store', last'.key, now).ret = last'.val
             /\ MapHas(store', last'.key)
       /\ last'.op = "deleteVersioned"
          => /\ store' = AdapterDelete(store, last'.key)
             /\ ~MapHas(store', last'.key)]_vars

\* a value was written through writeVersioned and is what the adapter returns,
\* and deleteVersioned removed an entry that was there
VersionedDelegatesWitness ==
    \/ /\ last.op = "writeVersioned"
       /\ last.val = MaxVal
       /\ AdapterRead(store, last.key, now).ret = MaxVal
    \/ /\ last.op = "deleteVersioned"
       /\ last.flag

----------------------------------------------------------------------------
(* Properties of the session bridge *)

\* C29 (session bridge): getSessionKey returns prefix + the chat id as a
\* string for a context with a chat id; bridge.storage read, write and
\* delete act on the adapter under exactly the key they are given, without
\* applying the prefix again: a write puts the value under that key and
\* touches no other key, a read returns what the adapter holds under it, and
\* after a delete the key reads as absent.
SessionBridgeKeys ==
    [][/\ (last'.op = "getSessionKey" /\ kb'.ctx.chat # Undefined)
          => kb'.key = cfg.prefix \o toString(kb'.ctx.chat)
       /\ last'.op = "write"
          => /\ MapKeys(store') = MapKeys(store) \cup {kb.key}
             /\ MemoryStorageAdapter_read(store', kb.key, now).ret = last'.val
             /\ \A k \in MapKeys(store) \ {kb.key} : MapGet(store', k) = MapGet(store, k)
       /\ last'.op = "read"
          => /\ store' = store
             /\ last'.ret = MemoryStorageAdapter_read(store, kb.key, now).ret
       /\ last'.op = "delete"
          => /\ MapKeys(store') = MapKeys(store) \ {kb.key}
             /\ MemoryStorageAdapter_read(store', kb.key, now).ret = Undefined
             /\ \A k \in MapKeys(store') : MapGet(store', k) = MapGet(store, k)]_vars

\* C29 witness: with the prefix "p:" and chat id MaxId, a read through the
\* bridge returned the value written under the key getSessionKey built, the
\* only key the adapter holds
SessionBridgeKeysWitness ==
    /\ cfg.prefix = "p:"
    /\ kb.ctx.chat = MaxId
    /\ kb.key = "p:" \o toString(MaxId)
    /\ last.op = "read"
    /\ last.ret = 1
    /\ MapKeys(store) = {kb.key}

----------------------------------------------------------------------------
(* Properties of the adapters *)

\* C6: with no TTL configured, in each of the three in-memory adapters, read(k)
\* returns the value of the latest write to k when no delete of k followed it
\* (and absent otherwise), both as the result a read would give in every state
\* and as the result the latest read gave.
RoundTrip ==
    ttl = Undefined =>
        /\ \A k \in AdapterKeys : AdapterRead(store, k, now).ret = latest[k]
        /\ last.op = "read" => last.ret = latest[last.key]

\* a read of MemoryStorageAdapter returned the falsy value 0 written earlier,
\* after the clock advanced
RoundTripWitness ==
    /\ kind = "MemoryStorageAdapter" /\ ttl = Undefined /\ now = MaxTime
    /\ last.op = "read" /\ last.ret = 0 /\ latest[last.key] = 0

\* C7: for a finite non-negative ttlMilliseconds = n, an entry written at time t
\* reads as absent from time t + n on and as its value before.
TtlExpiry ==
    (kind = "MemoryStorageAdapter" /\ ttl \in 0..MaxTtl) =>
        \A k \in AdapterKeys :
            latest[k] # Undefined =>
                AdapterRead(store, k, now).ret =
                    IF now >= writtenAt[k] + ttl THEN Undefined ELSE latest[k]

\* the same statement for n >= 1 only (n = 0 is the case the code treats as no TTL)
TtlExpiryPositive ==
    (kind = "MemoryStorageAdapter" /\ ttl \in 1..MaxTtl) =>
        \A k \in AdapterKeys :
            latest[k] # Undefined =>
                AdapterRead(store, k, now).ret =
                    IF now >= writtenAt[k] + ttl THEN Undefined ELSE latest[k]

\* C8: a next() of readAllKeys/readAllValues/readAllEntries that yields does so
\* for a key whose entry is still stored and has not reached its expiry time.
LazyEvictionEnumeration ==
    (last.op = "next" /\ ~last.flag) =>
        /\ MapHas(store, last.key)
        /\ LET entry == MapGet(store, last.key)
           IN  entry.expiresAt # Undefined => entry.expiresAt > now
        /\ ttl \in 1..MaxTtl => now < writtenAt[last.key] + ttl

\* a next() dropped an expired entry, never deleted explicitly, and yielded a
\* later live one
LazyEvictionEnumerationWitness ==
    /\ last.op = "next" /\ ~last.flag /\ last.val > 0
    /\ \E k \in AdapterKeys : latest[k] # Undefined /\ ~MapHas(store, k)

\* C9: delete(k) always returns; on a key that is absent it leaves the Map as
\* it was; in every case it leaves the entries of the other keys unchanged, a
\* read(k) right after it returns absent, and a second delete(k) changes nothing.
DeleteIdempotence ==
    [][last'.op = "delete" =>
        LET k == last'.key
        IN  /\ ~MapHas(store, k) => store' = store
            /\ \A j \in AdapterKeys \ {k} :
                  /\ MapHas(store', j) = MapHas(store, j)
                  /\ MapHas(store, j) => MapGet(store', j) = MapGet(store, j)
            /\ AdapterRead(store', k, now').ret = Undefined
            /\ AdapterDelete(store', k) = store']_vars

\* delete was called for a key without an entry while another key held one
DeleteIdempotenceWitness ==
    last.op = "delete" /\ ~last.flag /\ store # <<>>

\* C25 (has is consistent with read): after has(k) on a MemoryStorageAdapter,
\* whatever the clock, has returned true exactly if a read(k) issued next
\* returns a value.
HasConsistentWithRead ==
    (kind = "MemoryStorageAdapter" /\ last.op = "has")
    => (last.flag <=> MemoryStorageAdapter_read(store, last.key, now).ret # Undefined)

\* C25 witness: has(k) returned false for an entry that was written, never
\* deleted, and has expired
HasConsistentWithReadWitness ==
    /\ kind = "MemoryStorageAdapter"
    /\ last.op = "has"
    /\ ~last.flag
    /\ latest[last.key] # Undefined
    /\ MemoryStorageAdapter_read(store, last.key, now).ret = Undefined

\* C26 (write replaces value and expiry): with a finite ttl n, when
\* write(k, v2) at time t2 replaced an entry of k that had not expired, the
\* Map holds for k the value v2 with expiry time t2 + n and nothing of the
\* first entry: read(k) returns v2 at every time before t2 + n, the first
\* entry's expiry time included when it lies before, and absent from t2 + n on.
WriteReplaces ==
    (/\ kind = "MemoryStorageAdapter"
     /\ ttl \in 0..MaxTtl
     /\ last.op = "write"
     /\ last.flag)
    => /\ MapGet(store, last.key) = [value |-> last.val, expiresAt |-> now + ttl]
       /\ \A t \in now..(now + MaxTtl + 1) :
             MemoryStorageAdapter_read(store, last.key, t).ret =
                IF t < now + ttl THEN last.val ELSE Undefined

\* C26 witness: the second write came later than the first and before its
\* expiry; a read at the first entry's expiry time returns the second value
WriteReplacesWitness ==
    /\ kind = "MemoryStorageAdapter"
    /\ ttl \in 0..MaxTtl
    /\ last.op = "write"
    /\ last.flag
    /\ last.ret < now + ttl
    /\ MemoryStorageAdapter_read(store, last.key, last.ret).ret = last.val
    /\ MemoryStorageAdapter_read(store, last.key, now + ttl).ret = Undefined

\* C27 (no TTL means no expiry): in a MemoryStorageAdapter constructed with
\* ttlMilliseconds absent or Infinity, after any calls of read, has and the
\* enumerations and any clock advance, an entry written and not deleted is
\* still in the Map without an expiry time, and read(k) returns its value now
\* and at every later time without removing it.
NoTtlNoExpiry ==
    (kind = "MemoryStorageAdapter" /\ ttl \in {Undefined, Infinity})
    => \A k \in AdapterKeys :
          latest[k] # Undefined
          => /\ MapHas(store, k)
             /\ MapGet(store, k) = [value |-> latest[k], expiresAt |-> Undefined]
             /\ \A t \in now..(MaxTime + 1) :
                   MemoryStorageAdapter_read(store, k, t) = [store |-> store, ret |-> latest[k]]

\* C27 witness: with ttlMilliseconds = Infinity an enumeration yields, at the
\* latest clock value, an entry written at time 0
NoTtlNoExpiryWitness ==
    /\ kind = "MemoryStorageAdapter"
    /\ ttl = Infinity
    /\ now = MaxTime
    /\ last.op = "next"
    /\ ~last.flag
    /\ latest[last.key] # Undefined
    /\ writtenAt[last.key] = 0

\* the entry e has an expiry time and the clock n has reached it
Expired(e, n) == Truthy(e.expiresAt) /\ e.expiresAt <= n

\* C28 (enumeration is lazy): each next() of a generator of readAllKeys /
\* readAllValues / readAllEntries tests expiry against the clock at that
\* next(), not at the call that returned the generator: it yields the first
\* entry behind its position that has not expired by now (or ends if there is
\* none), purges the expired entries it passes on the way without yielding
\* them, and leaves every other entry, those already yielded included, as it
\* was.
LazyEnumeration ==
    [][last'.op = "next" =>
        LET liveIdx == {i \in (iter.pos + 1)..Len(store) : ~Expired(store[i].val, now)}
            first == CHOOSE i \in liveIdx : \A j \in liveIdx : i <= j
            reached == IF liveIdx = {} THEN Len(store) ELSE first
        IN  /\ last'.flag <=> liveIdx = {}
            /\ liveIdx # {}
                  => /\ last'.key = store[first].key
                     /\ iter.mode # "keys" => last'.ret = store[first].val.value
            /\ \A i \in 1..Len(store) :
                  IF i > iter.pos /\ i <= reached /\ Expired(store[i].val, now)
                  THEN ~MapHas(store', store[i].key)
                  ELSE /\ MapHas(store', store[i].key)
                       /\ MapGet(store', store[i].key) = store[i].val]_vars

\* C28 witness: an entry that was live when the generator was obtained expired
\* before the generator reached it; next() purged it and yielded the other entry
LazyEnumerationWitness ==
    /\ last.op = "next"
    /\ ~last.flag
    /\ last.val = 1
    /\ iter.mode # "none"
    /\ ttl \in 1..MaxTtl
    /\ \E k \in AdapterKeys :
          /\ latest[k] # Undefined
          /\ ~MapHas(store, k)
          /\ writtenAt[k] <= iter.at
          /\ iter.at < writtenAt[k] + ttl
          /\ writtenAt[k] + ttl <= now

\* C30 (enumeration content): with no TTL, after every step of any sequence
\* of calls on a MemoryStorageAdapter, readAllKeys() yields exactly the keys
\* that hold a value, each once, readAllValues() and readAllEntries() yield
\* the value of the latest write of each at the same position, and the order
\* is that of first insertion: a write of a key that holds no value appends
\* the key, a write of a key that holds one and every read, has or
\* enumeration leave the order as it was, and a delete removes the key.
EnumerationContent ==
    [][(kind = "MemoryStorageAdapter" /\ ttl \in {Undefined, Infinity}) =>
        \E before \in {readAllKeys(store, now)},
           keys \in {readAllKeys(store', now')},
           values \in {readAllValues(store', now')},
           entries \in {readAllEntries(store', now')} :
            /\ {keys[i] : i \in 1..Len(keys)} = {k \in AdapterKeys : latest'[k] # Undefined}
            /\ \A i, j \in 1..Len(keys) : keys[i] = keys[j] => i = j
            /\ Len(values) = Len(keys)
            /\ Len(entries) = Len(keys)
            /\ \A i \in 1..Len(keys) :
                  /\ values[i] = latest'[keys[i]]
                  /\ entries[i] = <<keys[i], latest'[keys[i]]>>
            /\ keys = CASE last'.op = "write" /\ latest[last'.key] = Undefined ->
                              Append(before, last'.key)
                        [] last'.op = "delete" ->
                              SelectSeq(before, LAMBDA k : k # last'.key)
                        [] OTHER -> before]_vars

\* C30 witness: b was written, then a, then b again: the enumeration still
\* yields b before a, with the values of the latest writes
EnumerationContentWitness ==
    /\ kind = "MemoryStorageAdapter"
    /\ ttl = Undefined
    /\ last.op = "write"
    /\ last.key = "b"
    /\ readAllKeys(store, now) = <<"b", "a">>
    /\ readAllValues(store, now) = <<latest["b"], latest["a"]>>
    /\ writtenAt["b"] > writtenAt["a"]


\* C35 (lazy eviction is local): read(k) or has(k) of a MemoryStorageAdapter
\* on an entry that has expired removes the entry of k from the Map and
\* returns absent (false), leaving every other entry, expired or not, as it
\* was; on a key whose entry has not expired or that has no entry it leaves
\* the Map unchanged.
LazyEvictionLocal ==
    [][(/\ kind = "MemoryStorageAdapter"
        /\ last'.op \in {"read", "has"})
       => IF MapHas(store, last'.key) /\ Expired(MapGet(store, last'.key), now)
          THEN /\ store' = SelectSeq(store, LAMBDA e : e.key # last'.key)
               /\ last'.op = "read" => last'.ret = Undefined
               /\ last'.op = "has" => ~last'.flag
          ELSE /\ store' = store
               /\ last'.op = "has" => (last'.flag <=> MapHas(store, last'.key))]_vars

\* C35 witness: a read returned absent for an entry that was written and never
\* deleted, its entry is gone, and the expired entry of another key is still
\* in the Map
LazyEvictionLocalWitness ==
    /\ kind = "MemoryStorageAdapter"
    /\ last.op = "read"
    /\ last.ret = Undefined
    /\ latest[last.key] # Undefined
    /\ ~MapHas(store, last.key)
    /\ \E k \in AdapterKeys \ {last.key} :
          MapHas(store, k) /\ Expired(MapGet(store, k), now)
====
